---- MODULE Spec2Model ----
(***************************************************************************)
(* A model of the scribe log service: the SSE event hub, the token-bucket  *)
(* rate limiter, and the log store with its ingestion, query and retention *)
(* handlers.  Each subsystem has its own specification (SpecHub,           *)
(* SpecLimiter, SpecStore) over the shared variables.                      *)
(***************************************************************************)
EXTENDS Integers, Sequences, FiniteSets, TLC

(***************************************************************************)
(* Bounds of the model.                                                    *)
(***************************************************************************)
\* viewers (SSE connections), each with its own channel
MaxViewers == 2
\* request goroutines that call the hub's Broadcast* methods
MaxProducers == 1
\* events submitted in one behaviour
MaxEvents == 2
\* capacity of hub.broadcast, scaled down from make(chan SSEEvent, 100)
BroadcastBuffer == 1
\* capacity of a client channel, scaled down from make(chan SSEEvent, 10)
ClientBuffer == 1
\* sends on hub.unregister beyond the one each SSEHandler makes
MaxStray == 1

\* capacity of the token bucket, scaled down from rateLimiter(100, time.Second)
Limit == 2
\* the window in clock units
Window == 4
\* the clock stops here
MaxTime == 5
\* rows the store is ever given (ids are never reused)
MaxLogs == 2
\* clock units in one day of retention
TicksPerDay == 2
MaxAnalysed == 2
\* goroutines serving requests through metricsMiddleware at the same time
MaxConcurrent == 2
\* requests that enter metricsMiddleware in one behaviour
MaxRequests == 3
\* samples kept per path, scaled down from len(durations) >= 100
MaxSamples == 2
\* requests the server handles at the same time
MaxInFlight == 3
\* committed writes that wait in the write-ahead log
MaxWal == 3

Viewers == 1..MaxViewers
Producers == 1..MaxProducers
\* the goroutines net/http serves requests in: one per connection, so one
\* more request can run while the producers are at work
Handlers == 1..(MaxProducers + 1)

VARIABLES
  \* ---- SSEHub (handlers/sse.go) ----
  clients,      \* h.clients: the set of registered client channels
  broadcast,    \* h.broadcast: buffered channel of events
  chanBuf,      \* contents of each client channel
  closed,       \* per client channel, number of close(client) calls
  hubpc,        \* position of SSEHub.run: "select", "reg", "fanout"
  hubArg,       \* the client received from h.register
  hubEv,        \* the event received from h.broadcast
  hubTodo,      \* clients the range loop has not visited yet
  vpc,          \* position of each SSEHandler: "idle", "loop", "never"
  ctxDone,      \* whether each request context is cancelled
  upc,          \* each unregistering goroutine: "none", "wait", "done"
  stray,        \* pending extra sends on h.unregister
  ppc,          \* position of each producer: "idle", "find", "send"
  pev,          \* the event a producer is sending
  \* ---- history of the hub ----
  evCount,      \* number of events created so far
  strayCount,   \* number of extra unregister sends so far
  got,          \* per viewer, the events put into its channel, in order
  hubFull       \* clients the current range loop found with a full buffer

hubVars == <<clients, broadcast, chanBuf, closed, hubpc, hubArg, hubEv,
             hubTodo, vpc, ctxDone, upc, stray, ppc, pev, evCount,
             strayCount, got, hubFull>>

VARIABLES
  \* ---- rateLimiter (http/middleware.go) ----
  now,          \* the wall clock, time.Now()
  tokens,       \* tokens
  lastTime,     \* lastTime
  tickDue,      \* a tick waits in ticker.C (buffer of one)
  \* ---- history of the limiter ----
  admits,       \* times of the admitted requests of the last window
  sinceCredit,  \* admitted requests since a token was last credited
  lastReq,      \* time of the previous request, or of construction
  resp          \* what the last request saw and got

limVars == <<now, tokens, lastTime, tickDue, admits, sinceCredit, lastReq,
             resp>>

VARIABLES
  \* ---- the logs table and its callers ----
  logs,         \* the rows of table logs
  nextId,       \* the id AUTOINCREMENT gives the next row
  outputID,     \* per producer, output.ID of the CreateLogWithSSE in progress
  findAll,      \* the FindAll call in progress, or the last one returned
  deleting,     \* per producer, the DELETE request in progress
  \* ---- history of the store ----
  storeResp,    \* what the last create or cleanup call returned
  counted,      \* the table as the count query of FindAll saw it
  analysed,     \* the classifications made so far, oldest first
  stats         \* the GetStatsHandler.Handle call in progress or returned

storeVars == <<logs, nextId, outputID, findAll, deleting, storeResp, counted,
               analysed, stats>>

VARIABLES
  \* ---- serverMetrics (http/middleware.go) ----
  TotalRequests,   \* serverMetrics.TotalRequests
  ActiveRequests,  \* serverMetrics.ActiveRequests
  TotalErrors,     \* serverMetrics.TotalErrors
  mpc,             \* position of each request goroutine in metricsMiddleware
  wwStatus,        \* per goroutine, ww.Status()
  RequestDuration, \* serverMetrics.RequestDuration: path -> slice header
  heap,            \* the backing arrays of the []time.Duration slices
  mpath,           \* per goroutine, r.URL.Path
  mstart,          \* per goroutine, the sample it measures
  durations,       \* per goroutine, the local slice header
  \* ---- history of the metrics ----
  entered,         \* number of calls of the middleware so far
  returned,        \* calls that have returned: all, and with status >= 400
  arrived          \* per path, the samples in the order they were stored

durVars == <<RequestDuration, heap, durations, arrived>>

metVars == <<TotalRequests, ActiveRequests, TotalErrors, mpc, wwStatus,
             entered, returned, mpath, mstart, durVars>>

VARIABLES
  \* ---- Server.Start and the serve command (http/server.go, cli/serve.go)
  srv           \* the process: position of the main goroutine, listener,
                \* in-flight requests, shutdown context, WAL and connection

notHub == <<limVars, storeVars, metVars, srv>>

notLimiter == <<hubVars, storeVars, metVars, srv>>

notMetrics == <<hubVars, limVars, storeVars, srv>>

notServer == <<hubVars, limVars, storeVars, metVars>>

notDelete == <<tokens, lastTime, tickDue, admits, sinceCredit, lastReq, resp,
               clients, broadcast, chanBuf, closed, hubpc, hubArg, hubEv,
               hubTodo, vpc, ctxDone, upc, stray, strayCount, got, hubFull,
               analysed, stats, metVars, srv>>

notStore == <<notDelete, deleting>>

vars == <<hubVars, limVars, storeVars, metVars, srv>>

NoEvent == [id |-> 0, type |-> "none", data |-> 0]

InitHub ==
  /\ clients = {}
  /\ broadcast = <<>>
  /\ chanBuf = [v \in Viewers |-> <<>>]
  /\ closed = [v \in Viewers |-> 0]
  /\ hubpc = "select"
  /\ hubArg = 0
  /\ hubEv = NoEvent
  /\ hubTodo = {}
  /\ vpc = [v \in Viewers |-> "idle"]
  /\ ctxDone = [v \in Viewers |-> FALSE]
  /\ upc = [v \in Viewers |-> "none"]
  /\ stray = {}
  /\ ppc = [p \in Handlers |-> "idle"]
  /\ pev = [p \in Handlers |-> NoEvent]
  /\ evCount = 0
  /\ strayCount = 0
  /\ got = [v \in Viewers |-> <<>>]
  /\ hubFull = {}

(***************************************************************************)
(* SSEHandler: one per viewer connection.                                  *)
(***************************************************************************)
\* the request context is cancelled (the viewer disconnects); the
\* goroutine go func() { <-notify; hub.unregister <- client }() is then
\* ready to send
CtxCancel(v) ==
  /\ vpc[v] = "loop"
  /\ ~ctxDone[v]
  /\ ctxDone' = [ctxDone EXCEPT ![v] = TRUE]
  /\ UNCHANGED <<notHub, clients, broadcast, chanBuf, closed, hubpc, hubArg, hubEv,
                 hubTodo, vpc, upc, stray, ppc, pev, evCount, strayCount,
                 got, hubFull>>

\* case event, ok := <-client with ok: the event is written to the wire
\* (the handler's return on !ok or on notify only ends these steps)
ViewerRecv(v) ==
  /\ vpc[v] = "loop"
  /\ chanBuf[v] # <<>>
  /\ chanBuf' = [chanBuf EXCEPT ![v] = Tail(chanBuf[v])]
  /\ UNCHANGED <<notHub, clients, broadcast, closed, hubpc, hubArg, hubEv, hubTodo,
                 vpc, ctxDone, upc, stray, ppc, pev, evCount, strayCount,
                 got, hubFull>>

\* one more send on h.unregister, for a channel that was already
\* unregistered or for one that is never registered ("never")
UnregisterAgain(v) ==
  /\ strayCount < MaxStray
  /\ v \notin stray
  /\ upc[v] = "done" \/ vpc[v] = "idle"
  /\ stray' = stray \cup {v}
  /\ strayCount' = strayCount + 1
  /\ vpc' = [vpc EXCEPT ![v] = IF @ = "idle" THEN "never" ELSE @]
  /\ UNCHANGED <<notHub, clients, broadcast, chanBuf, closed, hubpc, hubArg, hubEv,
                 hubTodo, ctxDone, upc, ppc, pev, evCount, got, hubFull>>

(***************************************************************************)
(* Producers: BroadcastLogCreated / BroadcastLogDeleted /                  *)
(* BroadcastStatsUpdated all do h.broadcast <- SSEEvent{...}.              *)
(***************************************************************************)
\* the producer enters a Broadcast* method and builds the event
BroadcastCall(p, type, data) ==
  /\ ppc[p] = "idle"
  /\ evCount < MaxEvents
  /\ evCount' = evCount + 1
  /\ pev' = [pev EXCEPT ![p] = [id |-> evCount + 1, type |-> type,
                                 data |-> data]]
  /\ ppc' = [ppc EXCEPT ![p] = "send"]
  /\ UNCHANGED <<notHub, clients, broadcast, chanBuf, closed, hubpc, hubArg, hubEv,
                 hubTodo, vpc, ctxDone, upc, stray, strayCount, got,
                 hubFull>>

BroadcastLogDeleted(p, id) == BroadcastCall(p, "log_deleted", id)

BroadcastStatsUpdated(p) == BroadcastCall(p, "stats_updated", 0)

\* a send on a buffered channel proceeds only while the buffer has room
ChanSendReady(q, cap) == Len(q) < cap

\* h.broadcast <- event completes
BroadcastSend(p) ==
  /\ ppc[p] = "send"
  /\ ChanSendReady(broadcast, BroadcastBuffer)
  /\ broadcast' = Append(broadcast, pev[p])
  /\ ppc' = [ppc EXCEPT ![p] = "idle"]
  /\ pev' = [pev EXCEPT ![p] = NoEvent]
  /\ UNCHANGED <<notHub, clients, chanBuf, closed, hubpc, hubArg, hubEv, hubTodo,
                 vpc, ctxDone, upc, stray, evCount, strayCount, got,
                 hubFull>>

(***************************************************************************)
(* SSEHub.run: the coordinator goroutine.                                  *)
(***************************************************************************)
\* client := make(chan SSEEvent, 10); hub.register <- client meets
\* case client := <-h.register: the rendezvous lets the handler go on to
\* start its unregistering goroutine and enter its loop
HubRecvRegister(v) ==
  /\ hubpc = "select"
  /\ vpc[v] = "idle"
  /\ hubpc' = "reg"
  /\ hubArg' = v
  /\ vpc' = [vpc EXCEPT ![v] = "loop"]
  /\ upc' = [upc EXCEPT ![v] = "wait"]
  /\ UNCHANGED <<notHub, clients, broadcast, chanBuf, closed, hubEv, hubTodo,
                 ctxDone, stray, ppc, pev, evCount, strayCount, got,
                 hubFull>>

\* h.clients[client] = true
HubInsert ==
  /\ hubpc = "reg"
  /\ clients' = clients \cup {hubArg}
  /\ hubpc' = "select"
  /\ hubArg' = 0
  /\ UNCHANGED <<notHub, broadcast, chanBuf, closed, hubEv, hubTodo, vpc, ctxDone,
                 upc, stray, ppc, pev, evCount, strayCount, got, hubFull>>

\* if _, ok := h.clients[client]; ok { delete(h.clients, client); close(client) }
UnregisterClientUnguarded(cl, v) == [clients |-> cl \ {v}, close |-> TRUE]

\* a mutant of UnregisterClient that leaves the set and the channel as
\* they are
UnregisterClientKeep(cl, v) == [clients |-> cl, close |-> FALSE]

\* a mutant of UnregisterClient that closes the channel and leaves it in
\* the set
UnregisterClientCloseOnly(cl, v) == [clients |-> cl, close |-> v \in cl]

UnregisterClient(cl, v) ==
  IF v \in cl THEN [clients |-> cl \ {v}, close |-> TRUE]
              ELSE [clients |-> cl, close |-> FALSE]

\* case client := <-h.unregister, sent by the handler's goroutine once its
\* context is done, or by another sender
HubRecvUnregister(v) ==
  /\ hubpc = "select"
  /\ \/ /\ upc[v] = "wait"
        /\ ctxDone[v]
        /\ upc' = [upc EXCEPT ![v] = "done"]
        /\ stray' = stray
     \/ /\ v \in stray
        /\ stray' = stray \ {v}
        /\ upc' = upc
  /\ LET r == UnregisterClient(clients, v) IN
       /\ clients' = r.clients
       /\ closed' = [closed EXCEPT ![v] = @ + (IF r.close THEN 1 ELSE 0)]
  /\ UNCHANGED <<notHub, broadcast, chanBuf, hubpc, hubArg, hubEv, hubTodo, vpc,
                 ctxDone, ppc, pev, evCount, strayCount, got, hubFull>>

\* case event := <-h.broadcast; the range over h.clients starts
HubRecvBroadcast ==
  /\ hubpc = "select"
  /\ broadcast # <<>>
  /\ hubEv' = Head(broadcast)
  /\ broadcast' = Tail(broadcast)
  /\ hubTodo' = clients
  /\ hubFull' = {}
  /\ hubpc' = "fanout"
  /\ UNCHANGED <<notHub, clients, chanBuf, closed, hubArg, vpc, ctxDone, upc, stray,
                 ppc, pev, evCount, strayCount, got>>

\* select { case client <- event: default: }
TrySendEvictOldest(buf, ev) ==
  IF Len(buf) < ClientBuffer THEN Append(buf, ev) ELSE Append(Tail(buf), ev)

TrySendNever(buf, ev) == buf

TrySend(buf, ev) ==
  IF Len(buf) < ClientBuffer THEN Append(buf, ev) ELSE buf

\* one iteration of for client := range h.clients (map order: any client)
HubFanoutStep(v) ==
  /\ hubpc = "fanout"
  /\ v \in hubTodo
  /\ chanBuf' = [chanBuf EXCEPT ![v] = TrySend(chanBuf[v], hubEv)]
  /\ got' = [got EXCEPT ![v] = IF chanBuf'[v] # chanBuf[v]
                                THEN Append(got[v], hubEv) ELSE got[v]]
  /\ hubFull' = IF Len(chanBuf[v]) >= ClientBuffer THEN hubFull \cup {v}
                ELSE hubFull
  /\ hubTodo' = hubTodo \ {v}
  /\ UNCHANGED <<notHub, clients, broadcast, closed, hubpc, hubArg, hubEv, vpc,
                 ctxDone, upc, stray, ppc, pev, evCount, strayCount>>

\* the range loop is over; back to the select
HubFanoutDone ==
  /\ hubpc = "fanout"
  /\ hubTodo = {}
  /\ hubpc' = "select"
  /\ hubEv' = NoEvent
  /\ hubFull' = {}
  /\ UNCHANGED <<notHub, clients, broadcast, chanBuf, closed, hubArg, hubTodo, vpc,
                 ctxDone, upc, stray, ppc, pev, evCount, strayCount, got>>

NextHub ==
  \/ \E v \in Viewers : CtxCancel(v)
  \/ \E v \in Viewers : ViewerRecv(v)
  \/ \E v \in Viewers : UnregisterAgain(v)
  \/ \E p \in Producers : BroadcastLogDeleted(p, 1)
  \/ \E p \in Producers : BroadcastStatsUpdated(p)
  \/ \E p \in Producers : BroadcastSend(p)
  \/ \E v \in Viewers : HubRecvRegister(v)
  \/ HubInsert
  \/ \E v \in Viewers : HubRecvUnregister(v)
  \/ HubRecvBroadcast
  \/ \E v \in Viewers : HubFanoutStep(v)
  \/ HubFanoutDone

\* the hub with one handler goroutine per viewer and the producers of
\* log_deleted events
NextCoordinator ==
  \/ \E v \in Viewers : CtxCancel(v)
  \/ \E v \in Viewers : ViewerRecv(v)
  \/ \E p \in Producers : BroadcastLogDeleted(p, 1)
  \/ \E p \in Producers : BroadcastSend(p)
  \/ \E v \in Viewers : HubRecvRegister(v)
  \/ HubInsert
  \/ \E v \in Viewers : HubRecvUnregister(v)
  \/ HubRecvBroadcast
  \/ \E v \in Viewers : HubFanoutStep(v)
  \/ HubFanoutDone

(***************************************************************************)
(* rateLimiter: a token bucket shared by all requests.                     *)
(***************************************************************************)
NoResp == [admitted |-> FALSE, status |-> 0, retryAfter |-> "", next |-> FALSE,
           prior |-> 0, run |-> 0, waited |-> 0, tokensBefore |-> 0]

\* tokens = limit; lastTime = time.Now(); the ticker starts
InitLimiter ==
  /\ now = 0
  /\ tokens = Limit
  /\ lastTime = 0
  /\ tickDue = FALSE
  /\ admits = <<>>
  /\ sinceCredit = 0
  /\ lastReq = 0
  /\ resp = NoResp

\* window / time.Duration(limit): the refill interval
Interval == Window \div Limit

\* the clock advances by one unit; the ticker fires every Interval and
\* drops the tick when the previous one was not yet taken
AdvanceTime ==
  /\ now < MaxTime
  /\ now' = now + 1
  /\ tickDue' = (tickDue \/ ((now + 1) % Interval = 0))
  /\ UNCHANGED <<notLimiter, tokens, lastTime, admits, sinceCredit, lastReq,
                 resp>>

\* for range ticker.C { mu.Lock(); if tokens < limit { tokens++ }; mu.Unlock() }
RefillTick ==
  /\ tickDue
  /\ tickDue' = FALSE
  /\ tokens' = IF tokens < Limit THEN tokens + 1 ELSE tokens
  /\ sinceCredit' = IF tokens < Limit THEN 0 ELSE sinceCredit
  /\ UNCHANGED <<notLimiter, now, lastTime, admits, lastReq, resp>>

\* refill := int(elapsed / (window / time.Duration(limit)))
RefillNone(elapsed) == 0

Refill(elapsed) == elapsed \div Interval

\* if tokens <= 0 { ... 429 ... return }
ExhaustedStrict(t) == t < 0

Exhausted(t) == t <= 0

\* tokens += refill; if tokens > limit { tokens = limit }
Reconcile(t, refill) == IF t + refill > Limit THEN Limit ELSE t + refill

\* the admitted requests of the window (now - Window, now]
InWindow(log, t) == SelectSeq(log, LAMBDA a : a > t - Window)

\* the handler returned by rateLimiter: one request, under mu
Request ==
  LET elapsed == now - lastTime
      refill == Refill(elapsed)
      t1 == IF refill > 0 THEN Reconcile(tokens, refill) ELSE tokens
      run == IF t1 > tokens THEN 0 ELSE sinceCredit
      reject == Exhausted(t1)
  IN
  /\ lastTime' = IF refill > 0 THEN now ELSE lastTime
  /\ tokens' = IF reject THEN t1 ELSE t1 - 1
  /\ sinceCredit' = IF reject THEN run ELSE run + 1
  /\ admits' = IF reject THEN InWindow(admits, now)
               ELSE Append(InWindow(admits, now), now)
  /\ lastReq' = now
  /\ resp' = [admitted |-> ~reject,
              status |-> IF reject THEN 429 ELSE 200,
              retryAfter |-> IF reject THEN "1" ELSE "",
              next |-> ~reject,
              prior |-> Len(InWindow(admits, now)),
              run |-> run,
              waited |-> now - lastReq,
              tokensBefore |-> tokens]
  /\ UNCHANGED <<notLimiter, now, tickDue>>

NextLimiter ==
  \/ AdvanceTime
  \/ RefillTick
  \/ Request

\* ------------------------------------------------------------------
\* Strings.  A Go string is a TLA+ string; its bytes are read with SubSeq.
\* ------------------------------------------------------------------

CharAt(s, i) == SubSeq(s, i, i)

UpperAZ == "ABCDEFGHIJKLMNOPQRSTUVWXYZ"
LowerAZ == "abcdefghijklmnopqrstuvwxyz"
Digits == "0123456789"

CharsOf(s) == {CharAt(s, i) : i \in 1..Len(s)}

\* position of the one-character string c in s, 0 if absent
CharIndex(s, c) ==
    LET hits == {i \in 1..Len(s) : CharAt(s, i) = c}
    IN  IF hits = {} THEN 0 ELSE CHOOSE i \in hits : \A j \in hits : i <= j

LowerChar(c) ==
    IF CharIndex(UpperAZ, c) = 0 THEN c
    ELSE CharAt(LowerAZ, CharIndex(UpperAZ, c))

RECURSIVE ToLower(_)
\* strings.ToLower
ToLower(s) == IF s = "" THEN "" ELSE LowerChar(CharAt(s, 1)) \o ToLower(Tail(s))

\* the substring test shared by strings.Contains and strings.Index
HasAt(s, i, p) == i + Len(p) - 1 <= Len(s) /\ SubSeq(s, i, i + Len(p) - 1) = p

\* strings.Contains
Contains(s, p) == \E i \in 1..(Len(s) - Len(p) + 1) : HasAt(s, i, p)

\* strings.Index, with positions counted from 1 and 0 for "not found"
Index(s, p) ==
    LET hits == {i \in 1..(Len(s) - Len(p) + 1) : HasAt(s, i, p)}
    IN  IF hits = {} THEN 0 ELSE CHOOSE i \in hits : \A j \in hits : i <= j

\* containsAny, and the loops "for _, p := range list: if Contains(...)"
containsAny(text, patterns) ==
    \E k \in 1..Len(patterns) : Contains(text, patterns[k])

RECURSIVE Join(_, _)
\* strings.Join
Join(parts, sep) ==
    IF parts = <<>> THEN ""
    ELSE IF Len(parts) = 1 THEN parts[1]
    ELSE parts[1] \o sep \o Join(Tail(parts), sep)

IsDigit(c) == c \in CharsOf(Digits)
Spaces == {" ", "\t", "\n", "\f", "\r"}
IsSpace(c) == c \in Spaces
IsWordChar(c) ==
    c \in CharsOf(Digits) \cup CharsOf(UpperAZ) \cup CharsOf(LowerAZ) \cup {"_"}

RECURSIVE Itoa(_)
\* decimal rendering of a non-negative integer
Itoa(n) ==
    IF n < 10 THEN CharAt(Digits, n + 1)
    ELSE Itoa(n \div 10) \o CharAt(Digits, (n % 10) + 1)

RECURSIVE DigitsValue(_, _)
DigitsValue(s, acc) ==
    IF s = "" THEN acc
    ELSE DigitsValue(Tail(s), acc * 10 + CharIndex(Digits, CharAt(s, 1)) - 1)

\* strconv.Atoi: an optional sign followed by decimal digits only
Atoi(s) ==
    LET signed == s # "" /\ CharAt(s, 1) \in {"+", "-"}
        ds == IF signed THEN Tail(s) ELSE s
        ok == ds # "" /\ \A i \in 1..Len(ds) : IsDigit(CharAt(ds, i))
        v == IF ok THEN DigitsValue(ds, 0) ELSE 0
    IN  [ok |-> ok,
         val |-> IF signed /\ CharAt(s, 1) = "-" THEN 0 - v ELSE v]

\* strings.TrimSpace for the blanks a title can hold
RECURSIVE TrimLeft(_)
TrimLeft(s) ==
    IF s # "" /\ IsSpace(CharAt(s, 1)) THEN TrimLeft(Tail(s)) ELSE s

RECURSIVE TrimRight(_)
TrimRight(s) ==
    IF s # "" /\ IsSpace(CharAt(s, Len(s)))
    THEN TrimRight(SubSeq(s, 1, Len(s) - 1)) ELSE s

TrimSpace(s) == TrimRight(TrimLeft(s))

\* first index k >= j of s whose character is outside chars, Len(s) + 1
\* if there is none
SkipWhile(s, j, chars) ==
    CHOOSE k \in j..(Len(s) + 1) :
        /\ \A m \in j..(k - 1) : CharAt(s, m) \in chars
        /\ k = Len(s) + 1 \/ CharAt(s, k) \notin chars

\* first index k >= j of s whose character is in chars, Len(s) + 1 if
\* there is none
SkipUntil(s, j, chars) ==
    CHOOSE k \in j..(Len(s) + 1) :
        /\ \A m \in j..(k - 1) : CharAt(s, m) \notin chars
        /\ k = Len(s) + 1 \/ CharAt(s, k) \in chars

ThreeDigitsAt(s, k) ==
    k + 2 <= Len(s) /\ \A m \in k..(k + 2) : IsDigit(CharAt(s, m))

\* ------------------------------------------------------------------
\* The rule tables (patterns/rules).  A Go map is the set of its entries.
\* ------------------------------------------------------------------

SecurityPatterns == <<
    "unauthorized", "forbidden", "auth failed", "authentication failed",
    "permission denied", "access denied", "invalid token", "token expired",
    "session expired", "breach", "leaked", "exposed", "vulnerability",
    "injection", "xss", "csrf", "compromised", "malicious", "exploit",
    "brute force", "ddos", "flooding", "suspicious", "intrusion",
    "sql injection", "code injection", "command injection">>

BusinessPatterns == {
    <<"payment failed", "error">>, <<"payment successful", "success">>,
    <<"payment pending", "info">>, <<"payment declined", "error">>,
    <<"payment processed", "success">>, <<"order completed", "success">>,
    <<"order canceled", "warning">>, <<"order failed", "error">>,
    <<"order placed", "success">>, <<"order refunded", "info">>,
    <<"subscription expired", "warning">>,
    <<"subscription renewed", "success">>,
    <<"subscription canceled", "warning">>,
    <<"subscription activated", "success">>, <<"trial expired", "info">>,
    <<"trial started", "success">>, <<"invoice overdue", "warning">>,
    <<"invoice paid", "success">>, <<"invoice sent", "info">>,
    <<"refund processed", "info">>, <<"refund failed", "error">>,
    <<"refund requested", "info">>, <<"user registered", "success">>,
    <<"user deleted", "warning">>, <<"user deactivated", "warning">>,
    <<"user activated", "success">>, <<"login successful", "success">>,
    <<"login failed", "warning">>, <<"logout successful", "info">>,
    <<"password changed", "info">>, <<"password reset", "info">>,
    <<"cart abandoned", "warning">>, <<"cart updated", "info">>,
    <<"checkout started", "info">>, <<"checkout completed", "success">>}

PerformancePatterns == {
    <<"slow query", "warning">>, <<"query timeout", "error">>,
    <<"request timeout", "error">>, <<"connection timeout", "error">>,
    <<"high latency", "warning">>, <<"memory pressure", "warning">>,
    <<"cpu spike", "warning">>, <<"disk full", "critical">>,
    <<"rate limited", "warning">>, <<"throttled", "warning">>,
    <<"bottleneck", "warning">>, <<"degraded", "warning">>}

HTTPStatusSeverity == {
    <<"200", "success">>, <<"201", "success">>, <<"202", "success">>,
    <<"204", "success">>, <<"301", "info">>, <<"302", "info">>,
    <<"304", "info">>, <<"400", "warning">>, <<"401", "error">>,
    <<"403", "error">>, <<"404", "warning">>, <<"405", "warning">>,
    <<"408", "warning">>, <<"409", "warning">>, <<"410", "warning">>,
    <<"413", "warning">>, <<"422", "warning">>, <<"429", "warning">>,
    <<"500", "error">>, <<"501", "error">>, <<"502", "error">>,
    <<"503", "critical">>, <<"504", "critical">>, <<"507", "critical">>,
    <<"511", "error">>}

DatabasePatterns == {
    <<"deadlock", "critical">>, <<"connection pool exhausted", "critical">>,
    <<"too many connections", "critical">>, <<"duplicate key", "warning">>,
    <<"constraint violation", "error">>, <<"foreign key violation", "error">>,
    <<"unique constraint", "warning">>, <<"table locked", "warning">>,
    <<"database locked", "warning">>, <<"sqlite_busy", "warning">>,
    <<"sqlite_locked", "warning">>, <<"sqlite_corrupt", "critical">>,
    <<"connection refused", "error">>, <<"connection timeout", "error">>,
    <<"query timeout", "warning">>}

SystemErrorCodes == {
    <<"ECONNREFUSED", "error">>, <<"ETIMEDOUT", "error">>,
    <<"ENOTFOUND", "error">>, <<"ECONNRESET", "error">>, <<"EPIPE", "error">>,
    <<"EACCES", "error">>, <<"ENOENT", "warning">>, <<"EISDIR", "error">>,
    <<"EMFILE", "critical">>, <<"ENOMEM", "critical">>,
    <<"ENOSPC", "critical">>, <<"EIO", "critical">>, <<"EROFS", "error">>}

ErrorKeywords == <<
    "error", "failed", "failure", "fatal", "critical", "crash", "exception",
    "panic", "abort", "aborted", "refused", "denied", "reject", "rejected",
    "timeout", "timed out", "unavailable", "unreachable", "invalid",
    "corrupt", "corrupted", "broken", "violation", "exceeded", "overflow",
    "underflow", "leak", "died", "dying", "dump", "dumped", "fault",
    "faulted", "kill", "killed", "terminate", "terminated", "segfault",
    "segmentation", "core dump", "stack overflow", "out of memory", "oom",
    "cannot", "could not", "unable", "impossible">>

WarningKeywords == <<
    "warning", "warn", "deprecated", "deprecation", "slow", "slower", "delay",
    "delayed", "lag", "lagging", "retry", "retrying", "retried", "pending",
    "blocked", "blocking", "queue full", "high load", "degraded", "flaky",
    "unstable", "intermittent", "occasional", "sometimes", "timeout soon">>

SuccessKeywords == <<
    "success", "successful", "successfully", "succeeded", "complete",
    "completed", "done", "finished", "processed", "created", "updated",
    "saved", "stored", "published", "deployed", "approved", "accepted",
    "validated", "verified", "confirmed", "established", "connected", "ready",
    "available", "online", "restored", "recovered", "fixed", "resolved",
    "passed", "ok", "okay", "working", "operational", "healthy">>

DebugKeywords == <<
    "debug", "debugging", "trace", "tracing", "verbose", "entering",
    "entered", "exiting", "exited", "calling", "called", "executing",
    "executed", "invoking", "invoked", "beginning", "starting", "stopping",
    "ended">>

\* ------------------------------------------------------------------
\* The classifier (PatternMatcher, SourceDeriver).  A body is the sequence
\* of its fields in key order, as encoding/json writes a map; a field is
\* [name, kind, num, str] with kind "num" (a JSON number, held as float64)
\* or "str".
\* ------------------------------------------------------------------

NumField(name, n) == [name |-> name, kind |-> "num", num |-> n, str |-> ""]
StrField(name, s) == [name |-> name, kind |-> "str", num |-> 0, str |-> s]

HasField(body, name) == \E i \in 1..Len(body) : body[i].name = name

Field(body, name) == body[CHOOSE i \in 1..Len(body) : body[i].name = name]

\* json.Marshal of the body map (strings without characters to escape)
BodyJSON(body) ==
    LET val(f) == IF f.kind = "num" THEN Itoa(f.num)
                  ELSE "\"" \o f.str \o "\""
        member(f) == "\"" \o f.name \o "\":" \o val(f)
    IN  "{" \o Join([i \in 1..Len(body) |-> member(body[i])], ",") \o "}"

getSearchableText(log) ==
    Join(<<log.title>>
         \o (IF log.description # "" THEN <<log.description>> ELSE <<>>)
         \o (IF Len(log.body) > 0 THEN <<BodyJSON(log.body)>> ELSE <<>>),
         " ")

detectSecurityIssue(textLower) == containsAny(textLower, SecurityPatterns)

detectCategory(textLower) ==
    IF detectSecurityIssue(textLower) THEN "security"
    ELSE IF containsAny(textLower, <<"http", "request", "response", "status",
                                     "endpoint", "api", "rest", "graphql">>)
    THEN "http"
    ELSE IF containsAny(textLower, <<"database", "sql", "query", "table",
                                     "postgres", "mysql", "mongo", "redis",
                                     "sqlite">>)
    THEN "database"
    ELSE IF containsAny(textLower, <<"slow", "timeout", "latency",
                                     "performance", "memory", "cpu", "disk",
                                     "duration">>)
    THEN "performance"
    ELSE IF containsAny(textLower, <<"payment", "order", "invoice",
                                     "subscription", "user", "login",
                                     "checkout", "cart">>)
    THEN "business"
    ELSE IF containsAny(textLower, <<"system", "kernel", "process", "signal",
                                     "daemon", "service", "cron",
                                     "scheduler">>)
    THEN "system"
    ELSE "general"

\* "for pattern, severity := range table { if Contains(text, pattern)
\* { return severity } }": Go ranges over a map in an unspecified order, so
\* the loop can return the severity of any entry whose pattern occurs.
RangeMatches(table, text) ==
    {e[2] : e \in {t \in table : Contains(text, t[1])}}

checkBusinessPatterns(textLower) == RangeMatches(BusinessPatterns, textLower)

PerformanceThresholds == [fast |-> 100, normal |-> 1000, slow |-> 3000,
                          critical |-> 5000]

CategorizePerformance(durationMs) ==
    IF durationMs < PerformanceThresholds.fast THEN "fast"
    ELSE IF durationMs < PerformanceThresholds.normal THEN "normal"
    ELSE IF durationMs < PerformanceThresholds.slow THEN "slow"
    ELSE "critical"

PerformanceSeverity(level) ==
    CASE level = "fast" -> "success"
      [] level = "normal" -> "info"
      [] level = "slow" -> "warning"
      [] level = "critical" -> "error"
      [] OTHER -> "info"

durationFields == <<"duration", "duration_ms", "elapsed", "elapsed_ms",
                    "time_ms", "latency", "latency_ms">>

\* the value a duration field contributes: its number, its string parsed
\* by Atoi, or 0
DurationMs(f) ==
    IF f.kind = "num" THEN f.num
    ELSE IF Atoi(f.str).ok THEN Atoi(f.str).val ELSE 0

\* the body part of checkPerformancePatterns: the first field of
\* durationFields that is present with a positive value decides
BodyDuration(body) ==
    LET good == {k \in 1..Len(durationFields) :
                    /\ HasField(body, durationFields[k])
                    /\ DurationMs(Field(body, durationFields[k])) > 0}
        first == CHOOSE k \in good : \A j \in good : k <= j
    IN  IF good = {} THEN {}
        ELSE {PerformanceSeverity(CategorizePerformance(
                  DurationMs(Field(body, durationFields[first]))))}

\* the set of severities checkPerformancePatterns can return, {} for ""
checkPerformancePatterns(log, textLower) ==
    IF RangeMatches(PerformancePatterns, textLower) # {}
    THEN RangeMatches(PerformancePatterns, textLower)
    ELSE BodyDuration(log.body)

\* a keyword at i, a run of characters of sep at least minSep long, an
\* optional quote if quoted, then three digits, which are the capture;
\* "" if the pattern does not match at i
KeywordThenCode(tl, i, keywords, sep, minSep, quoted) ==
    LET kws == {k \in 1..Len(keywords) : HasAt(tl, i, keywords[k])}
        kw == keywords[CHOOSE k \in kws : \A j \in kws : k <= j]
        j == i + Len(kw)
        k == SkipWhile(tl, j, sep)
        q == IF quoted /\ k <= Len(tl) /\ CharAt(tl, k) \in {"\"", "'"}
             THEN k + 1 ELSE k
    IN  IF kws # {} /\ k - j >= minSep /\ ThreeDigitsAt(tl, q)
        THEN SubSeq(tl, q, q + 2)
        ELSE ""

\* \b(\d{3})\s+(?:error|ok|found|not found) matched at i
CodeThenWord(tl, i) ==
    LET k == SkipWhile(tl, i + 3, Spaces)
    IN  IF /\ i = 1 \/ ~IsWordChar(CharAt(tl, i - 1))
           /\ ThreeDigitsAt(tl, i)
           /\ k > i + 3
           /\ \E w \in {"error", "ok", "found", "not found"} : HasAt(tl, k, w)
        THEN SubSeq(tl, i, i + 2)
        ELSE ""

\* the capture of the n-th pattern of extractHTTPStatusCode matched at i;
\* all five are (?i) and capture digits, so they are matched on the
\* lower-cased text
Capture(tl, n, i) ==
    CASE n = 1 -> KeywordThenCode(tl, i, <<"status", "http", "code">>,
                                  Spaces \cup {":", "="}, 0, FALSE)
      [] n = 2 -> KeywordThenCode(tl, i, <<"returned">>, Spaces, 1, FALSE)
      [] n = 3 -> CodeThenWord(tl, i)
      [] n = 4 -> KeywordThenCode(tl, i, <<"\"status\"">>,
                                  Spaces \cup {":"}, 1, TRUE)
      [] n = 5 -> KeywordThenCode(tl, i, <<"\"status_code\"">>,
                                  Spaces \cup {":"}, 1, TRUE)

\* FindStringSubmatch: the capture of the leftmost match of pattern n
Leftmost(tl, n) ==
    LET hits == {i \in 1..Len(tl) : Capture(tl, n, i) # ""}
    IN  IF hits = {} THEN ""
        ELSE Capture(tl, n, CHOOSE i \in hits : \A j \in hits : i <= j)

\* the patterns are tried in order on the whole text
extractHTTPStatusCode(text) ==
    LET tl == ToLower(text)
        found == {n \in 1..5 : Leftmost(tl, n) # ""}
    IN  IF found = {} THEN ""
        ELSE Leftmost(tl, CHOOSE n \in found : \A m \in found : n <= m)

stackIndicators == <<
    " at line ", " at Object.", "Traceback", "goroutine ", "panic:",
    ".java:", ".py:", ".js:", ".go:", "at /", "File \"", " line ",
    "in <module>", "Exception in thread", "Caused by:", "\n\tat ",
    "Call Stack:", "Stack trace:", "at Function.">>

hasStackTrace(text) ==
    \E k \in 1..Len(stackIndicators) :
        Contains(ToLower(text), ToLower(stackIndicators[k]))

detectSeverityFromKeywords(textLower) ==
    IF containsAny(textLower, ErrorKeywords) THEN "error"
    ELSE IF containsAny(textLower, WarningKeywords) THEN "warning"
    ELSE IF containsAny(textLower, SuccessKeywords) THEN "success"
    ELSE IF containsAny(textLower, DebugKeywords) THEN "debug"
    ELSE "info"

\* extractFromBodyFields: the first of the source fields that holds a
\* non-empty string
extractFromBodyFields(body) ==
    LET sourceFields == <<"service", "source", "app", "application",
                          "component", "module">>
        good == {k \in 1..Len(sourceFields) :
                    /\ HasField(body, sourceFields[k])
                    /\ Field(body, sourceFields[k]).kind = "str"
                    /\ Field(body, sourceFields[k]).str # ""}
    IN  IF good = {} THEN ""
        ELSE Field(body, sourceFields[CHOOSE k \in good :
                                         \A j \in good : k <= j]).str

\* extractFromTitlePrefix: "[api] ..." or "auth: ..."
extractFromTitlePrefix(title) ==
    LET rb == Index(title, "]")
        co == Index(title, ":")
        prefix == TrimSpace(SubSeq(title, 1, co - 1))
    IN  IF HasAt(title, 1, "[") /\ rb - 1 > 1
        THEN ToLower(SubSeq(title, 2, rb - 1))
        ELSE IF co - 1 > 0 /\ co - 1 < 20 /\ ~Contains(prefix, " ")
        THEN ToLower(prefix)
        ELSE ""

\* strings.Fields: the maximal runs of non-blank characters
Fields(s) ==
    LET starts == {i \in 1..Len(s) :
                      /\ ~IsSpace(CharAt(s, i))
                      /\ i = 1 \/ IsSpace(CharAt(s, i - 1))}
        word(i) == SubSeq(s, i, SkipUntil(s, i, Spaces) - 1)
    IN  {<<i, word(i)>> : i \in starts}

RECURSIVE TrimCut(_, _)
\* strings.Trim(word, cutset)
TrimCut(w, cut) ==
    IF w # "" /\ CharAt(w, 1) \in cut THEN TrimCut(Tail(w), cut)
    ELSE IF w # "" /\ CharAt(w, Len(w)) \in cut
    THEN TrimCut(SubSeq(w, 1, Len(w) - 1), cut)
    ELSE w

\* the closing loop of smartSourceExtraction: the first word naming a
\* service whose trimmed form is longer than two characters
ServiceWord(textLower) ==
    LET cut == CharsOf(".,!?:;\"'()[]{}")
        good == {f \in Fields(textLower) :
                    /\ Contains(f[2], "-service") \/ Contains(f[2], "_service")
                    /\ Len(TrimCut(f[2], cut)) > 2}
        first == CHOOSE f \in good : \A g \in good : f[1] <= g[1]
    IN  IF good = {} THEN "" ELSE TrimCut(first[2], cut)

smartSourceExtraction(allText) ==
    LET textLower == ToLower(allText)
        any(patterns) == containsAny(textLower, patterns)
        has(p) == Contains(textLower, p)
    IN  IF any(<<"database", "sql", "query", "table">>)
        THEN IF has("postgres") THEN "postgresql-db"
             ELSE IF has("mysql") THEN "mysql-db"
             ELSE IF has("mongo") THEN "mongodb"
             ELSE IF has("redis") THEN "redis-cache"
             ELSE IF has("sqlite") THEN "sqlite-db"
             ELSE "database-service"
        ELSE IF any(<<"login", "auth", "token", "session", "jwt", "oauth">>)
        THEN "auth-service"
        ELSE IF any(<<"payment", "stripe", "paypal", "billing", "invoice",
                      "checkout">>)
        THEN "payment-service"
        ELSE IF any(<<"email", "smtp", "notification", "mailgun", "sendgrid",
                      "push notification">>)
        THEN "email-service"
        ELSE IF any(<<"api gateway", "endpoint", "route", "/api/">>)
        THEN "api-gateway"
        ELSE IF has("user") /\ any(<<"profile", "register", "account",
                                     "signup">>)
        THEN "user-service"
        ELSE IF any(<<"order", "cart", "inventory", "product", "catalog">>)
        THEN "order-service"
        ELSE IF any(<<"file", "upload", "download", "s3", "storage", "blob",
                      "bucket">>)
        THEN "file-service"
        ELSE IF any(<<"search", "elasticsearch", "solr", "algolia",
                      "opensearch">>)
        THEN "search-service"
        ELSE IF any(<<"health", "monitor", "metrics", "prometheus", "grafana",
                      "datadog">>)
        THEN "monitoring-service"
        ELSE IF any(<<"load balan", "nginx", "haproxy", "upstream",
                      "reverse proxy">>)
        THEN "load-balancer"
        ELSE IF has("cache") /\ ~has("redis")
        THEN "cache-service"
        ELSE IF any(<<"queue", "rabbitmq", "kafka", "sqs", "pubsub",
                      "message broker">>)
        THEN "queue-service"
        ELSE IF any(<<"config", "setting", "environment", "feature flag">>)
        THEN "config-service"
        ELSE IF any(<<"backup", "restore", "archive", "snapshot">>)
        THEN "backup-service"
        ELSE IF any(<<"report", "analytics", "dashboard", "bi ",
                      "business intelligence">>)
        THEN "reporting-service"
        ELSE IF any(<<"deploy", "build", "pipeline", "docker", "kubernetes",
                      "k8s", "ci/cd">>)
        THEN "deployment-service"
        ELSE IF any(<<"cdn", "cloudflare", "fastly", "akamai",
                      "static asset">>)
        THEN "cdn-service"
        ELSE IF any(<<"cron", "scheduler", "scheduled task", "job runner">>)
        THEN "scheduler-service"
        ELSE IF any(<<"webhook", "callback", "hook endpoint">>)
        THEN "webhook-service"
        ELSE ServiceWord(textLower)

DeriveSource(log) ==
    IF log.source # "" THEN log.source
    ELSE IF extractFromBodyFields(log.body) # ""
    THEN extractFromBodyFields(log.body)
    ELSE IF extractFromTitlePrefix(log.title) # ""
    THEN extractFromTitlePrefix(log.title)
    ELSE smartSourceExtraction(getSearchableText(log))

Metadata(severity, category, source) ==
    [derived_severity |-> severity, derived_category |-> category,
     derived_source |-> source]

\* a mutant of AnalyzeLog that looks for an HTTP status code before
\* anything else
AnalyzeLogStatusFirst(log) ==
    LET allText == getSearchableText(log)
        textLower == ToLower(allText)
        src == DeriveSource(log)
        business == checkBusinessPatterns(textLower)
        perf == checkPerformancePatterns(log, textLower)
        statusCode == extractHTTPStatusCode(allText)
        http == {e[2] : e \in {t \in HTTPStatusSeverity : t[1] = statusCode}}
        database == RangeMatches(DatabasePatterns, textLower)
        system == RangeMatches(SystemErrorCodes, allText)
    IN  IF statusCode # "" /\ http # {}
        THEN {Metadata(s, "http", src) : s \in http}
        ELSE IF detectSecurityIssue(textLower)
        THEN {Metadata("critical", "security", src)}
        ELSE IF business # {}
        THEN {Metadata(s, "business", src) : s \in business}
        ELSE IF perf # {}
        THEN {Metadata(s, "performance", src) : s \in perf}
        ELSE IF statusCode # "" /\ http # {}
        THEN {Metadata(s, "http", src) : s \in http}
        ELSE IF hasStackTrace(allText)
        THEN {Metadata("error", detectCategory(textLower), src)}
        ELSE IF database # {}
        THEN {Metadata(s, "database", src) : s \in database}
        ELSE IF system # {}
        THEN {Metadata(s, "system", src) : s \in system}
        ELSE {Metadata(detectSeverityFromKeywords(textLower),
                       detectCategory(textLower), src)}

\* AnalyzeLog: the set of results the ordered pipeline can return for a
\* log; the set has several members only where a stage ranges over a map
AnalyzeLog(log) ==
    LET allText == getSearchableText(log)
        textLower == ToLower(allText)
        src == DeriveSource(log)
        business == checkBusinessPatterns(textLower)
        perf == checkPerformancePatterns(log, textLower)
        statusCode == extractHTTPStatusCode(allText)
        http == {e[2] : e \in {t \in HTTPStatusSeverity : t[1] = statusCode}}
        database == RangeMatches(DatabasePatterns, textLower)
        system == RangeMatches(SystemErrorCodes, allText)
    IN  IF detectSecurityIssue(textLower)
        THEN {Metadata("critical", "security", src)}
        ELSE IF business # {}
        THEN {Metadata(s, "business", src) : s \in business}
        ELSE IF perf # {}
        THEN {Metadata(s, "performance", src) : s \in perf}
        ELSE IF statusCode # "" /\ http # {}
        THEN {Metadata(s, "http", src) : s \in http}
        ELSE IF hasStackTrace(allText)
        THEN {Metadata("error", detectCategory(textLower), src)}
        ELSE IF database # {}
        THEN {Metadata(s, "database", src) : s \in database}
        ELSE IF system # {}
        THEN {Metadata(s, "system", src) : s \in system}
        ELSE {Metadata(detectSeverityFromKeywords(textLower),
                       detectCategory(textLower), src)}

(***************************************************************************)
(* The logs table (persistence/sqlite) and the commands and handlers that  *)
(* write it.  Times are clock readings, an absent column value (NULL) and  *)
(* a nil error are the empty string.                                       *)
(***************************************************************************)
ErrMissingTitle == "log title is required"

ValidColors == <<
    "slate", "gray", "zinc", "neutral", "stone", "red", "orange", "amber",
    "yellow", "lime", "green", "emerald", "teal", "cyan", "sky", "blue",
    "indigo", "violet", "purple", "fuchsia", "pink", "rose">>

SeverityFromString(s) == IF s = "" THEN "info" ELSE s

ColorFromString(s) ==
    IF \E k \in 1..Len(ValidColors) : ValidColors[k] = ToLower(s)
    THEN ToLower(s) ELSE ""

\* the create requests the callers send
CreateInput(title, severity, source, color, description, body) ==
    [title |-> title, severity |-> severity, source |-> source,
     color |-> color, description |-> description, body |-> body]

CreateInputs == {
    CreateInput("", "error", "api", "", "", <<>>),
    CreateInput("Payment FAILED", "", "", "", "", <<>>),
    CreateInput("cache warm", "warning", "api", "Red", "returned 503", <<>>)}

\* the header Handle builds, and entities.NewLog at clock reading t
NewLog(in, t) ==
    [id |-> 0, title |-> in.title,
     severity |-> SeverityFromString(in.severity), source |-> in.source,
     color |-> ColorFromString(in.color), description |-> in.description,
     body |-> in.body, derived_severity |-> "", derived_source |-> "",
     derived_category |-> "", created_at |-> t]

\* a mutant of Validate that accepts every title
ValidateAny(log) == ""

\* Log.Validate
Validate(log) == IF log.title = "" THEN ErrMissingTitle ELSE ""

\* requests whose text meets two stages of the classifier at once, or two
\* patterns of one table, or that name a severity themselves
ClassifyInputs == {
    CreateInput("payment failed, refund processed", "", "", "", "", <<>>),
    CreateInput("Unauthorized request returned 401", "", "", "", "", <<>>),
    CreateInput("order failed after slow query", "", "", "", "", <<>>),
    CreateInput("request timeout, status 504", "", "", "", "", <<>>),
    CreateInput("upstream returned 500", "", "", "", "panic: nil map", <<>>),
    CreateInput("panic: deadlock", "", "", "", "", <<>>),
    CreateInput("connection refused ECONNREFUSED", "", "", "", "", <<>>),
    CreateInput("ENOENT: open failed", "", "", "", "", <<>>),
    CreateInput("job failed", "info", "", "", "", <<>>),
    CreateInput("job failed", "warning", "", "", "", <<>>)}

\* requests with and without a source, one of them named "unknown"
StatsInputs == {
    CreateInput("note", "warning", "", "", "", <<>>),
    CreateInput("note", "warning", "unknown", "", "", <<>>),
    CreateInput("job failed", "info", "api", "", "", <<>>)}

\* requests whose text meets no rule of the classifier and whose body
\* carries durations: at the thresholds, as numbers and as strings, under
\* several field names, unparsable, and zero
DurationInputs == {
    CreateInput("page rendered", "", "", "", "", <<NumField("duration", 99)>>),
    CreateInput("page rendered", "", "", "", "",
                <<NumField("duration_ms", 100)>>),
    CreateInput("page rendered", "", "", "", "",
                <<StrField("elapsed", "999")>>),
    CreateInput("page rendered", "", "", "", "",
                <<NumField("elapsed_ms", 1000)>>),
    CreateInput("page rendered", "", "", "", "",
                <<StrField("time_ms", "2999")>>),
    CreateInput("page rendered", "", "", "", "",
                <<NumField("duration_ms", 3000), NumField("latency", 10)>>),
    CreateInput("page rendered", "", "", "", "",
                <<StrField("duration", "fast"), NumField("latency_ms", 5000)>>),
    CreateInput("page rendered", "", "", "", "",
                <<NumField("duration", 0), NumField("latency_ms", 5000)>>)}

\* what the classifier can return for each input, computed once
Analysis ==
    [in \in CreateInputs \cup ClassifyInputs \cup StatsInputs
             \cup DurationInputs |->
       AnalyzeLog(NewLog(in, 0))]

\* "Apply derived metadata only if not already set"
ApplyMetadata(log, md) ==
    [log EXCEPT
       !.derived_severity =
           IF /\ log.severity \in {"", "info"}
              /\ md.derived_severity \notin {"", "info"}
           THEN md.derived_severity ELSE "",
       !.derived_source =
           IF log.source = "" /\ md.derived_source # ""
           THEN md.derived_source ELSE "",
       !.derived_category = md.derived_category]

\* LogRepository.Create: the row INSERT adds, under the id it is given
Create(rows, log, id) ==
    rows \cup {[log EXCEPT !.id = id, !.body = BodyJSON(log.body)]}

\* CreateLogHandler.Handle: the results it can return at clock reading t
\* on the table rows, when the next id is id
Handle(in, t, rows, id) ==
    LET log == NewLog(in, t)
    IN  IF Validate(log) # ""
        THEN {[err |-> Validate(log), id |-> 0, rows |-> rows]}
        ELSE {[err |-> "", id |-> id,
               rows |-> Create(rows, ApplyMetadata(log, md), id)] :
                 md \in Analysis[in]}

StoreResp(op, status, err, id, deleted, cutoff) ==
    [op |-> op, status |-> status, err |-> err, id |-> id,
     deleted |-> deleted, cutoff |-> cutoff]

NoFilters == [Search |-> "", Severity |-> "", Source |-> "", Color |-> "",
              FromDate |-> -1, ToDate |-> -1, Limit |-> 0, Offset |-> 0]

\* history: no FindAll call has returned yet
NoCall == [called |-> FALSE, filters |-> NoFilters, logs |-> <<>>]

\* seen and prev are history, kept for a call that asks for the page
\* after the one the call before it returned: the table as the page query
\* of that call saw it, and what that call returned
NoFindAll == [pc |-> "idle", filters |-> NoFilters, totalCount |-> 0,
              logs |-> <<>>, err |-> "", seen |-> {}, prev |-> NoCall]

\* no DELETE request in progress; req, tried and removed are history: the
\* ids the request named, the ids it passed to repo.Delete, and the ids
\* whose rows it removed
NoDelete == [pc |-> "none", id |-> 0, ids |-> <<>>, deleted |-> 0,
             req |-> <<>>, tried |-> <<>>, removed |-> {}]

\* the table after the migrations ran on a new database
\* no GET /api/stats yet; severityRows and sourceRows are history: the
\* table as the query of CountBySeverity and of CountBySource saw it
NoStats == [pc |-> "none", Total |-> 0, Last24Hours |-> 0,
            BySeverity |-> <<>>, BySource |-> <<>>,
            severityRows |-> {}, sourceRows |-> {}]

InitStore ==
  /\ logs = {}
  /\ nextId = 1
  /\ outputID = [p \in Handlers |-> 0]
  /\ findAll = NoFindAll
  /\ deleting = [p \in Handlers |-> NoDelete]
  /\ analysed = <<>>
  /\ stats = NoStats
  /\ storeResp = StoreResp("none", 0, "", 0, 0, 0)
  /\ counted = {}

\* the mutation: a rowid without AUTOINCREMENT, one more than the largest
\* id in the table
RowidOfTable(rows, seq) ==
  IF rows = {} THEN 1
  ELSE (CHOOSE i \in {r.id : r \in rows} : \A r \in rows : r.id <= i) + 1

\* id INTEGER PRIMARY KEY AUTOINCREMENT: one more than the largest id the
\* table has ever held, which sqlite_sequence remembers (seq is that plus 1)
AutoIncrement(rows, seq) == seq

\* scribe log: the command line runs CreateLogHandler.Handle
LogCmd(in) ==
  /\ in.title # "" => nextId <= MaxLogs
  /\ \E r \in Handle(in, now, logs, AutoIncrement(logs, nextId)) :
       /\ logs' = r.rows
       /\ nextId' = IF r.err = "" THEN nextId + 1 ELSE nextId
       /\ storeResp' = StoreResp("log", 0, r.err, r.id, 0, 0)
  /\ UNCHANGED <<notStore, now, ppc, pev, evCount, outputID, findAll,
                 counted>>

\* POST /api/logs up to the return of handler.Handle
CreateLogWithSSE(p, in) ==
  /\ ppc[p] = "idle"
  /\ outputID[p] = 0
  /\ deleting[p].pc = "none"
  /\ in.title # "" => nextId <= MaxLogs
  /\ IF in.title = ""
     THEN /\ storeResp' = StoreResp("POST /api/logs", 400,
                                    "title is required", 0, 0, 0)
          /\ UNCHANGED <<logs, nextId, ppc, outputID>>
     ELSE \E r \in Handle(in, now, logs, AutoIncrement(logs, nextId)) :
            /\ logs' = r.rows
            /\ IF r.err # ""
               THEN /\ storeResp' = StoreResp("POST /api/logs", 500, r.err,
                                              0, 0, 0)
                    /\ UNCHANGED <<nextId, ppc, outputID>>
               ELSE /\ UNCHANGED storeResp
                    /\ nextId' = nextId + 1
                    /\ ppc' = [ppc EXCEPT ![p] = "find"]
                    /\ outputID' = [outputID EXCEPT ![p] = r.id]
  /\ UNCHANGED <<notStore, now, pev, evCount, findAll, counted>>

\* LogRepository.FindByID: the rows with that id
FindByID(rows, id) == {l \in rows : l.id = id}

\* log, _ := repo.FindByID(output.ID); if log != nil
\* { hub.BroadcastLogCreated(log) }: the producer builds the event and goes
\* on to send it
CreateLogBroadcast(p) ==
  /\ ppc[p] = "find"
  /\ evCount < MaxEvents
  /\ IF FindByID(logs, outputID[p]) # {}
     THEN /\ evCount' = evCount + 1
          /\ pev' = [pev EXCEPT ![p] = [id |-> evCount + 1,
                                         type |-> "log_created",
                                         data |-> outputID[p]]]
          /\ ppc' = [ppc EXCEPT ![p] = "send"]
     ELSE /\ ppc' = [ppc EXCEPT ![p] = "idle"]
          /\ UNCHANGED <<evCount, pev>>
  /\ UNCHANGED <<notStore, now, logs, nextId, outputID, findAll, storeResp,
                 counted>>

\* a mutant of CreateLogRespond that answers while the event is still to
\* be sent
CreateLogRespondEarly(p) ==
  /\ outputID[p] # 0
  /\ ppc[p] \in {"idle", "send"}
  /\ storeResp' = StoreResp("POST /api/logs", 201, "", outputID[p], 0, 0)
  /\ outputID' = [outputID EXCEPT ![p] = 0]
  /\ UNCHANGED <<notStore, now, ppc, pev, evCount, logs, nextId, findAll,
                 counted>>

\* w.WriteHeader(http.StatusCreated), once hub.BroadcastLogCreated has
\* returned or was not called
CreateLogRespond(p) ==
  /\ outputID[p] # 0
  /\ ppc[p] = "idle"
  /\ storeResp' = StoreResp("POST /api/logs", 201, "", outputID[p], 0, 0)
  /\ outputID' = [outputID EXCEPT ![p] = 0]
  /\ UNCHANGED <<notStore, now, ppc, pev, evCount, logs, nextId, findAll,
                 counted>>

\* time.Now().AddDate(0, 0, days)
AddDate(t, days) == t + days * TicksPerDay

\* a mutant of OlderThan that takes the boundary too
OlderThanOrAt(t, cutoff) == t <= cutoff

\* created_at < ?
OlderThan(t, cutoff) == t < cutoff

\* LogRepository.DeleteOlderThan: the table left and RowsAffected
DeleteOlderThan(rows, cutoff) ==
    [rows |-> {l \in rows : ~OlderThan(l.created_at, cutoff)},
     affected |-> Cardinality({l \in rows : OlderThan(l.created_at, cutoff)})]

\* the retention periods the callers send
RetentionDays == {-1, 0, 1, 2}

\* a mutant of InvalidRetention that lets zero days through
InvalidRetentionNegative(days) == days < 0

\* request.RetentionDays < 1
InvalidRetention(days) == days < 1

\* CleanupLogsHandler.Handle
CleanupLogsHandle(days) ==
  /\ IF InvalidRetention(days)
     THEN /\ storeResp' = StoreResp("cleanup", 0,
                 "retention_days must be at least 1", 0, 0, 0)
          /\ UNCHANGED logs
     ELSE LET cutoffDate == AddDate(now, 0 - days)
              del == DeleteOlderThan(logs, cutoffDate)
          IN  /\ logs' = del.rows
              /\ storeResp' = StoreResp("cleanup", 0, "", 0, del.affected,
                                        cutoffDate)
  /\ UNCHANGED <<notStore, now, ppc, pev, evCount, nextId, outputID, findAll,
                 counted>>

\* config.RetentionDays <= 0
NotPositive(days) == days <= 0

\* POST /api/admin/cleanup
CleanupLogs(days) ==
  /\ IF NotPositive(days)
     THEN /\ storeResp' = StoreResp("POST /api/admin/cleanup", 400,
                 "retention_days must be greater than 0", 0, 0, 0)
          /\ UNCHANGED logs
     ELSE LET cutoffDate == AddDate(now, 0 - days)
              del == DeleteOlderThan(logs, cutoffDate)
          IN  /\ logs' = del.rows
              /\ storeResp' = StoreResp("POST /api/admin/cleanup", 200, "",
                                        0, del.affected, cutoffDate)
  /\ UNCHANGED <<notStore, now, ppc, pev, evCount, nextId, outputID, findAll,
                 counted>>

\* Log.EffectiveSeverity, on a stored row
EffectiveSeverity(l) ==
    IF l.derived_severity # "" THEN l.derived_severity
    ELSE IF l.severity # "" THEN l.severity
    ELSE "info"

\* matcher.AnalyzeLog(log) called on a request's log; the call and what it
\* returned are kept in analysed
Classify(in) ==
  /\ Len(analysed) < MaxAnalysed
  /\ \E md \in Analysis[in] :
       analysed' = Append(analysed, [in |-> in, md |-> md])
  /\ UNCHANGED <<hubVars, limVars, metVars, srv, logs, nextId, outputID, findAll, deleting,
                 storeResp, counted, stats>>

\* the classifier, and scribe log, on requests that meet several rules
NextClassify ==
  \/ \E in \in ClassifyInputs : Classify(in)
  \/ \E in \in ClassifyInputs : LogCmd(in)

\* the classifier, and scribe log, on requests that carry durations
NextPerformance ==
  \/ \E in \in DurationInputs : Classify(in)
  \/ \E in \in DurationInputs : LogCmd(in)

(***************************************************************************)
(* GET /api/stats: GetStatsHandler.Handle runs four queries, one after the *)
(* other and in no transaction.                                            *)
(***************************************************************************)
\* COALESCE(NULLIF(derived_severity, ''), severity)
EffectiveSeverityColumn(r) ==
  IF r.derived_severity # "" THEN r.derived_severity ELSE r.severity

\* the source column, NULL (here "") for a row created without a source
SourceColumn(r) == r.source

\* COALESCE(source, 'unknown')
CoalesceSource(r) == IF r.source = "" THEN "unknown" ELSE r.source

\* the rows of SELECT key(r), COUNT(*) FROM logs GROUP BY group(r)
GroupRows(rows, key(_), group(_)) ==
  {[key |-> key(r),
    count |-> Cardinality({q \in rows : group(q) = group(r)})] : r \in rows}

\* counts[key] = count for each row the query returns: a key that several
\* rows carry keeps the count of the row scanned last, and the order of
\* the rows of a GROUP BY without ORDER BY is not specified
ScanCounts(grouped) ==
  LET keys == {g.key : g \in grouped}
  IN  {m \in [keys -> {g.count : g \in grouped}] :
         \A k \in keys : [key |-> k, count |-> m[k]] \in grouped}

\* LogRepository.CountBySeverity
CountBySeverity(rows) ==
  ScanCounts(GroupRows(rows, EffectiveSeverityColumn, EffectiveSeverityColumn))

\* LogRepository.CountBySource
CountBySource(rows) ==
  ScanCounts(GroupRows(rows, CoalesceSource, SourceColumn))

\* total, err := h.repo.Count()
StatsCount ==
  /\ stats.pc \in {"none", "done"}
  /\ stats' = [NoStats EXCEPT !.pc = "last24", !.Total = Cardinality(logs)]
  /\ UNCHANGED <<hubVars, limVars, metVars, srv, logs, nextId, outputID, findAll,
                 deleting, storeResp, counted, analysed>>

\* last24h, err := h.repo.CountLast24Hours()
StatsLast24 ==
  /\ stats.pc = "last24"
  /\ stats' = [stats EXCEPT
                 !.pc = "severity",
                 !.Last24Hours =
                    Cardinality({r \in logs :
                                   r.created_at >= now - TicksPerDay})]
  /\ UNCHANGED <<hubVars, limVars, metVars, srv, logs, nextId, outputID, findAll,
                 deleting, storeResp, counted, analysed>>

\* bySeverity, err := h.repo.CountBySeverity()
StatsBySeverity ==
  /\ stats.pc = "severity"
  /\ \E m \in CountBySeverity(logs) :
       stats' = [stats EXCEPT !.pc = "source", !.BySeverity = m,
                              !.severityRows = logs]
  /\ UNCHANGED <<hubVars, limVars, metVars, srv, logs, nextId, outputID, findAll,
                 deleting, storeResp, counted, analysed>>

\* bySource, err := h.repo.CountBySource(), and the StatsOutput is returned
StatsBySource ==
  /\ stats.pc = "source"
  /\ \E m \in CountBySource(logs) :
       stats' = [stats EXCEPT !.pc = "done", !.BySource = m,
                              !.sourceRows = logs]
  /\ UNCHANGED <<hubVars, limVars, metVars, srv, logs, nextId, outputID, findAll,
                 deleting, storeResp, counted, analysed>>

NextStats ==
  \/ \E in \in StatsInputs : LogCmd(in)
  \/ StatsCount
  \/ StatsLast24
  \/ StatsBySeverity
  \/ StatsBySource
  \/ \E days \in RetentionDays : CleanupLogs(days)
  \/ AdvanceTime

ErrLogNotFound == "log not found"

\* the ids the callers name: those the table can give, and one more
IDs == 1..(MaxLogs + 1)

\* GET /api/logs/{id}
GetLog(id) ==
  /\ storeResp' = IF FindByID(logs, id) = {}
                  THEN StoreResp("GET /api/logs/{id}", 404, ErrLogNotFound,
                                 0, 0, 0)
                  ELSE StoreResp("GET /api/logs/{id}", 200, "", id, 0, 0)
  /\ UNCHANGED <<notStore, now, ppc, pev, evCount, logs, nextId, outputID,
                 findAll, counted>>

\* LogRepository.Delete: the table left and the error returned
Delete(rows, id) ==
    [rows |-> rows \ FindByID(rows, id),
     err |-> IF Cardinality(FindByID(rows, id)) = 0 THEN ErrLogNotFound
             ELSE ""]

\* DELETE /api/logs/{id} up to its existence check
DeleteLogWithSSE(p, id) ==
  /\ ppc[p] = "idle"
  /\ outputID[p] = 0
  /\ deleting[p].pc = "none"
  /\ IF FindByID(logs, id) = {}
     THEN /\ storeResp' = StoreResp("DELETE /api/logs/{id}", 404,
                                    ErrLogNotFound, 0, 0, 0)
          /\ UNCHANGED deleting
     ELSE /\ deleting' = [deleting EXCEPT ![p] =
                             [NoDelete EXCEPT !.pc = "delete", !.id = id]]
          /\ UNCHANGED storeResp
  /\ UNCHANGED <<notDelete, now, ppc, pev, evCount, logs, nextId, outputID,
                 findAll, counted>>

\* repo.Delete(id) in DELETE /api/logs/{id}; on success the handler goes
\* into hub.BroadcastLogDeleted(id) and builds the event
DeleteLogDelete(p) ==
  /\ deleting[p].pc = "delete"
  /\ ppc[p] = "idle"
  /\ evCount < MaxEvents
  /\ LET r == Delete(logs, deleting[p].id) IN
       /\ logs' = r.rows
       /\ IF r.err # ""
          THEN /\ storeResp' = StoreResp("DELETE /api/logs/{id}", 500, r.err,
                                         0, 0, 0)
               /\ deleting' = [deleting EXCEPT ![p] = NoDelete]
               /\ UNCHANGED <<ppc, pev, evCount>>
          ELSE /\ evCount' = evCount + 1
               /\ pev' = [pev EXCEPT ![p] = [id |-> evCount + 1,
                                              type |-> "log_deleted",
                                              data |-> deleting[p].id]]
               /\ ppc' = [ppc EXCEPT ![p] = "send"]
               /\ deleting' = [deleting EXCEPT ![p].pc = "respond",
                                               ![p].removed = {deleting[p].id}]
               /\ UNCHANGED storeResp
  /\ UNCHANGED <<notDelete, now, nextId, outputID, findAll, counted>>

\* w.WriteHeader(http.StatusNoContent), once the broadcast was sent
DeleteLogRespond(p) ==
  /\ deleting[p].pc = "respond"
  /\ ppc[p] = "idle"
  /\ storeResp' = StoreResp("DELETE /api/logs/{id}", 204, "", deleting[p].id,
                            1, 0)
  /\ deleting' = [deleting EXCEPT ![p] = NoDelete]
  /\ UNCHANGED <<notDelete, now, ppc, pev, evCount, logs, nextId, outputID,
                 findAll, counted>>

\* the id lists DELETE /api/logs is sent
IDLists == {<<>>, <<3, 1>>, <<1, 1, 2>>}

\* DELETE /api/logs up to the start of its loop
DeleteLogsWithSSE(p, ids) ==
  /\ ppc[p] = "idle"
  /\ outputID[p] = 0
  /\ deleting[p].pc = "none"
  /\ IF Len(ids) = 0
     THEN /\ storeResp' = StoreResp("DELETE /api/logs", 400,
                                    "ids are required", 0, 0, 0)
          /\ UNCHANGED deleting
     ELSE /\ deleting' = [deleting EXCEPT ![p] =
                             [NoDelete EXCEPT !.pc = "loop", !.ids = ids,
                                              !.req = ids]]
          /\ UNCHANGED storeResp
  /\ UNCHANGED <<notDelete, now, ppc, pev, evCount, logs, nextId, outputID,
                 findAll, counted>>

\* a mutant of Remaining that leaves the loop at the first failure
RemainingUntilError(ids, err) == IF err # "" THEN <<>> ELSE Tail(ids)

\* for _, id := range req.IDs: the ids left after one iteration, whatever
\* repo.Delete returned
Remaining(ids, err) == Tail(ids)

\* one iteration of the loop: repo.Delete(id), and on success deleted++
\* and the event of hub.BroadcastLogDeleted(id) is built
DeleteLogsStep(p) ==
  /\ deleting[p].pc = "loop"
  /\ deleting[p].ids # <<>>
  /\ ppc[p] = "idle"
  /\ LET id == Head(deleting[p].ids)
         r == Delete(logs, id)
     IN  /\ r.err = "" => evCount < MaxEvents
         /\ logs' = r.rows
         /\ deleting' = [deleting EXCEPT
               ![p].ids = Remaining(deleting[p].ids, r.err),
               ![p].deleted = IF r.err = "" THEN @ + 1 ELSE @,
               ![p].tried = Append(@, id),
               ![p].removed = @ \cup {l.id : l \in logs \ r.rows}]
         /\ IF r.err = ""
            THEN /\ evCount' = evCount + 1
                 /\ pev' = [pev EXCEPT ![p] = [id |-> evCount + 1,
                                                type |-> "log_deleted",
                                                data |-> id]]
                 /\ ppc' = [ppc EXCEPT ![p] = "send"]
            ELSE UNCHANGED <<ppc, pev, evCount>>
  /\ UNCHANGED <<notDelete, now, nextId, outputID, findAll, storeResp,
                 counted>>

\* json.NewEncoder(w).Encode(map[string]int{"deleted": deleted})
DeleteLogsRespond(p) ==
  /\ deleting[p].pc = "loop"
  /\ deleting[p].ids = <<>>
  /\ ppc[p] = "idle"
  /\ storeResp' = StoreResp("DELETE /api/logs", 200, "", 0,
                            deleting[p].deleted, 0)
  /\ deleting' = [deleting EXCEPT ![p].pc = "none"]
  /\ UNCHANGED <<notDelete, now, ppc, pev, evCount, logs, nextId, outputID,
                 findAll, counted>>

\* bulk deletes while records are written
NextBulk ==
  \/ \E in \in CreateInputs : LogCmd(in)
  \/ \E p \in Producers : \E ids \in IDLists : DeleteLogsWithSSE(p, ids)
  \/ \E p \in Producers : DeleteLogsStep(p)
  \/ \E p \in Producers : DeleteLogsRespond(p)
  \/ \E p \in Producers : BroadcastSend(p)
  \/ HubRecvBroadcast
  \/ HubFanoutDone

\* the routes that write, look up and delete single records, with a
\* cleanup that can run between the steps of another request
NextDelete ==
  \/ \E in \in CreateInputs : LogCmd(in)
  \/ \E p \in Producers : \E in \in CreateInputs : CreateLogWithSSE(p, in)
  \/ \E p \in Producers : CreateLogBroadcast(p)
  \/ \E p \in Producers : CreateLogRespond(p)
  \/ \E id \in IDs : GetLog(id)
  \/ \E p \in Producers : \E id \in IDs : DeleteLogWithSSE(p, id)
  \/ \E p \in Producers : DeleteLogDelete(p)
  \/ \E p \in Producers : DeleteLogRespond(p)
  \/ \E p \in Producers : BroadcastSend(p)
  \/ HubRecvBroadcast
  \/ HubFanoutDone
  \/ \E days \in RetentionDays : CleanupLogs(days)
  \/ AdvanceTime

\* POST /api/logs and DELETE /api/logs/{id} served at the same time in
\* different goroutines, with subscribers connected to the hub
NextRace ==
  \/ \E p \in Handlers : \E in \in CreateInputs : CreateLogWithSSE(p, in)
  \/ \E p \in Handlers : CreateLogBroadcast(p)
  \/ \E p \in Handlers : CreateLogRespond(p)
  \/ \E p \in Handlers : \E id \in IDs : DeleteLogWithSSE(p, id)
  \/ \E p \in Handlers : DeleteLogDelete(p)
  \/ \E p \in Handlers : DeleteLogRespond(p)
  \/ \E p \in Handlers : BroadcastSend(p)
  \/ \E v \in Viewers : HubRecvRegister(v)
  \/ HubInsert
  \/ HubRecvBroadcast
  \/ \E v \in Viewers : HubFanoutStep(v)
  \/ HubFanoutDone
  \/ \E v \in Viewers : ViewerRecv(v)

\* ingestion: the command line and POST /api/logs with the hub behind it
NextIngest ==
  \/ \E in \in CreateInputs : LogCmd(in)
  \/ \E p \in Producers : \E in \in CreateInputs : CreateLogWithSSE(p, in)
  \/ \E p \in Producers : CreateLogBroadcast(p)
  \/ \E p \in Producers : CreateLogRespond(p)
  \/ \E p \in Producers : BroadcastSend(p)
  \/ HubRecvBroadcast
  \/ HubFanoutDone

\* retention: rows are written, time passes, cleanups run
NextStore ==
  \/ \E in \in CreateInputs : LogCmd(in)
  \/ \E days \in RetentionDays : CleanupLogsHandle(days)
  \/ \E days \in RetentionDays : CleanupLogs(days)
  \/ AdvanceTime

(***************************************************************************)
(* LogRepository.FindAll and Count.                                        *)
(***************************************************************************)
LogFilters(search, severity, source, color, from, to, limit, offset) ==
    [Search |-> search, Severity |-> severity, Source |-> source,
     Color |-> color, FromDate |-> from, ToDate |-> to, Limit |-> limit,
     Offset |-> offset]

\* the filters the callers send; -1 is the empty date string.  The command
\* line passes --limit and --offset as given, the HTTP handlers pass a
\* limit of at least 1
FilterInputs == {
    LogFilters("", "", "", "", -1, -1, 20, 0),
    LogFilters("FAILED", "info", "", "", -1, -1, 1, 0),
    LogFilters("FAILED", "info", "", "", -1, -1, 1, 1),
    LogFilters("", "", "api", "red", 1, 3, 1, 1),
    LogFilters("", "", "", "", -1, -1, 0, 0),
    LogFilters("", "", "", "", -1, -1, 0, 1)}

RECURSIVE Like(_, _)
\* text LIKE pat in SQLite: % is any run of characters, _ any one
\* character, and letters match without regard to case
Like(text, pat) ==
    IF pat = "" THEN text = ""
    ELSE IF CharAt(pat, 1) = "%"
    THEN \E k \in 0..Len(text) :
             Like(SubSeq(text, k + 1, Len(text)), Tail(pat))
    ELSE /\ text # ""
         /\ \/ CharAt(pat, 1) = "_"
            \/ LowerChar(CharAt(pat, 1)) = LowerChar(CharAt(text, 1))
         /\ Like(Tail(text), Tail(pat))

\* the clauses FindAll appends to both of its queries, in order
WhereClauses(f) ==
    (IF f.Search # "" THEN <<"search">> ELSE <<>>)
    \o (IF f.Severity # "" THEN <<"severity">> ELSE <<>>)
    \o (IF f.Source # "" THEN <<"source">> ELSE <<>>)
    \o (IF f.Color # "" THEN <<"color">> ELSE <<>>)
    \o (IF f.FromDate # -1 THEN <<"from">> ELSE <<>>)
    \o (IF f.ToDate # -1 THEN <<"to">> ELSE <<>>)

\* the texts a column of a row can hold
ColumnTexts ==
    UNION {{in.title, in.description, BodyJSON(in.body)} : in \in CreateInputs}

\* column LIKE searchTerm, computed once for each filter: the texts that
\* match "%" + filters.Search + "%"
Matches ==
    [f \in FilterInputs |->
        {t \in ColumnTexts : Like(t, "%" \o f.Search \o "%")}]

\* one clause evaluated on a row; a comparison with NULL is not true
ClauseHolds(clause, l, f) ==
    CASE clause = "search" ->
           \/ l.title \in Matches[f]
           \/ l.description # "" /\ l.description \in Matches[f]
           \/ l.body \in Matches[f]
      [] clause = "severity" -> l.severity = f.Severity
      [] clause = "source" -> l.source # "" /\ l.source = f.Source
      [] clause = "color" -> l.color # "" /\ l.color = f.Color
      [] clause = "from" -> l.created_at >= f.FromDate
      [] clause = "to" -> l.created_at <= f.ToDate

\* WHERE 1=1 AND clause AND ...
Where(l, f) ==
    \A k \in 1..Len(WhereClauses(f)) : ClauseHolds(WhereClauses(f)[k], l, f)

\* LogRepository.Count: SELECT COUNT(*) FROM logs
Count(rows) == Cardinality(rows)

\* the tail of the page query: ORDER BY, then LIMIT ? and OFFSET ? as the
\* filters ask for them
PageTail(f) ==
    <<"ORDER BY">> \o (IF f.Limit > 0 THEN <<"LIMIT">> ELSE <<>>)
                   \o (IF f.Offset > 0 THEN <<"OFFSET">> ELSE <<>>)

\* SQLite takes OFFSET only as part of a LIMIT clause
Prepares(tail) ==
    \A k \in 1..Len(tail) : tail[k] = "OFFSET" => (k > 1 /\ tail[k - 1] = "LIMIT")

\* the orders ORDER BY created_at DESC can give the rows
Orderings(rows) ==
    {s \in [1..Cardinality(rows) -> rows] :
        /\ \A i, j \in 1..Cardinality(rows) : i # j => s[i] # s[j]
        /\ \A i, j \in 1..Cardinality(rows) :
              i < j => s[i].created_at >= s[j].created_at}

\* LIMIT and OFFSET applied to an ordered result
Page(s, f) ==
    LET from == IF f.Offset > 0 THEN f.Offset + 1 ELSE 1
        to == IF f.Limit > 0 /\ from + f.Limit - 1 < Len(s)
              THEN from + f.Limit - 1 ELSE Len(s)
    IN  SubSeq(s, from, to)

\* g asks for the page that follows the page f asks for
PageAfter(f, g) ==
    /\ f.Limit > 0
    /\ g = [f EXCEPT !.Offset = f.Offset + f.Limit]

\* the bodies the program serialises into the body column
StoredBodies ==
    {in.body : in \in CreateInputs \cup ClassifyInputs \cup StatsInputs
                       \cup DurationInputs}

\* texts a write to the database file from outside the program can leave
\* in the body column: a truncated object, and no JSON at all
CorruptBodies == {"{\"status\":", "oops"}

\* json.Unmarshal([]byte(bodyJSON), &log.Body): the map whose encoding the
\* text is, or an error
Unmarshal(text) ==
    IF \E b \in StoredBodies : BodyJSON(b) = text
    THEN [err |-> FALSE,
          body |-> CHOOSE b \in StoredBodies : BodyJSON(b) = text]
    ELSE [err |-> TRUE, body |-> <<>>]

\* a created_at the driver cannot convert to time.Time
BadTime == -1

\* rows.Scan(&log.ID, ..., &log.CreatedAt, ...) returns an error
ScanErr(l) == l.created_at = BadTime

\* LogRepository.scanLog: the error of rows.Scan is returned; a body that
\* does not unmarshal becomes make(map[string]any)
scanLog(l) ==
    IF ScanErr(l)
    THEN [err |-> TRUE, log |-> l]
    ELSE [err |-> FALSE,
          log |-> [l EXCEPT !.body =
                     IF l.body # "" /\ ~Unmarshal(l.body).err
                     THEN Unmarshal(l.body).body ELSE <<>>]]

\* for rows.Next() { log, err := r.scanLog(rows); if err != nil
\* { continue }; logs = append(logs, log) }
ScanRows(s) ==
    LET kept == SelectSeq(s, LAMBDA l : ~scanLog(l).err)
    IN  [i \in 1..Len(kept) |-> scanLog(kept[i]).log]

\* a write to the database file from outside the program: the body or
\* the created_at column of row id is overwritten
EditRow(id, text) ==
  /\ \E l \in logs :
        /\ l.id = id
        /\ l.body \notin CorruptBodies
        /\ l.created_at # BadTime
        /\ logs' = (logs \ {l}) \cup
                      {IF text = "" THEN [l EXCEPT !.created_at = BadTime]
                       ELSE [l EXCEPT !.body = text]}
  /\ UNCHANGED <<notStore, now, ppc, pev, evCount, nextId, outputID,
                 findAll, storeResp, counted>>

\* FindAll up to its count query
FindAllCount(f) ==
  /\ findAll.pc \in {"idle", "done"}
  /\ findAll' = [pc |-> "page", filters |-> f,
                 totalCount |-> Cardinality({l \in logs : Where(l, f)}),
                 logs |-> <<>>, err |-> "",
                 seen |-> IF PageAfter(findAll.filters, f)
                          THEN findAll.seen ELSE {},
                 prev |-> IF /\ findAll.pc = "done" /\ findAll.err = ""
                             /\ PageAfter(findAll.filters, f)
                          THEN [called |-> TRUE, filters |-> findAll.filters,
                                logs |-> findAll.logs]
                          ELSE NoCall]
  /\ counted' = logs
  /\ UNCHANGED <<notStore, now, ppc, pev, evCount, logs, nextId, outputID,
                 storeResp>>

\* FindAll from its page query to its return
FindAllPage ==
  /\ findAll.pc = "page"
  /\ IF ~Prepares(PageTail(findAll.filters))
     THEN findAll' = [findAll EXCEPT !.pc = "done", !.totalCount = 0,
                                     !.err = "failed to query logs"]
     ELSE \E s \in Orderings({l \in logs : Where(l, findAll.filters)}) :
            findAll' = [findAll EXCEPT
                          !.pc = "done",
                          !.seen = IF findAll.filters.Limit > 0
                                   THEN logs ELSE {},
                          !.same = (findAll.prev.called /\ findAll.seen = logs),
                          !.logs =
                            [i \in 1..Len(ScanRows(Page(s, findAll.filters)))
                               |-> ScanRows(Page(s, findAll.filters))[i].id]]
  /\ UNCHANGED <<notStore, now, ppc, pev, evCount, logs, nextId, outputID,
                 storeResp, counted>>

NextQuery ==
  \/ \E in \in CreateInputs : LogCmd(in)
  \/ \E days \in RetentionDays : CleanupLogs(days)
  \/ \E f \in FilterInputs : FindAllCount(f)
  \/ FindAllPage
  \/ AdvanceTime

\* listing while rows are written and the database file is edited from
\* outside
NextScan ==
  \/ \E in \in CreateInputs : LogCmd(in)
  \/ \E id \in IDs : \E text \in CorruptBodies \cup {""} : EditRow(id, text)
  \/ \E f \in FilterInputs : FindAllCount(f)
  \/ FindAllPage

(***************************************************************************)
(* metricsMiddleware (http/middleware.go): three counters of                *)
(* serverMetrics, each changed by one sync/atomic operation.  A request     *)
(* goroutine is "idle" outside the middleware, "count" after the            *)
(* increment of ActiveRequests, "serve" while next.ServeHTTP runs,          *)
(* "status" once it has returned, and "defer" when only the deferred        *)
(* decrement is left.                                                       *)
(***************************************************************************)
Goroutines == 1..MaxConcurrent

\* what ww.Status() can return: 0 when the handler wrote nothing
Statuses == {0, 399, 400}

\* atomic.AddUint64(addr, delta): one indivisible read-modify-write; the
\* counter wraps at 2^64, which no behaviour of MaxRequests requests reaches
AddUint64(v, delta) == v + delta

\* atomic.AddInt64(addr, delta)
AddInt64(v, delta) == v + delta

\* the mutation: only server errors are counted
IsErrorServerOnly(status) == status >= 500

\* ww.Status() >= 400
IsError(status) == status >= 400

\* r.URL.Path of the requests
Paths == {"/api/logs", "/health"}

\* a slice header: the backing array (0: none), the offset of its first
\* element in it and its length; ok is the second result of sync.Map.Load
NoSlice == [ok |-> FALSE, arr |-> 0, off |-> 0, len |-> 0]

\* cap(s)
Cap(h, s) == Len(h[s.arr]) - s.off

\* the elements of slice s
Elems(h, s) ==
  IF s.ok THEN SubSeq(h[s.arr], s.off + 1, s.off + s.len) ELSE <<>>

\* durations[1:]
Reslice1(s) == [s EXCEPT !.off = @ + 1, !.len = @ - 1]

\* if len(durations) >= 100 { durations = durations[1:] }
CapOldest(s) == IF s.len >= MaxSamples THEN Reslice1(s) ELSE s

\* append(s, d): written in place when the backing array has room, else
\* copied into a new array of twice the capacity (runtime.growslice)
SliceAppend(h, s, d) ==
  IF s.len < Cap(h, s)
  THEN [heap |-> [h EXCEPT ![s.arr][s.off + s.len + 1] = d],
        slice |-> [s EXCEPT !.len = @ + 1]]
  ELSE LET newcap == 2 * Cap(h, s)
           arr == [i \in 1..newcap |->
                     IF i <= s.len THEN h[s.arr][s.off + i]
                     ELSE IF i = s.len + 1 THEN d ELSE 0]
       IN [heap |-> Append(h, arr),
           slice |-> [ok |-> TRUE, arr |-> Len(h) + 1, off |-> 0,
                      len |-> s.len + 1]]

\* []time.Duration{d}
SliceLiteral(h, d) ==
  [heap |-> Append(h, <<d>>),
   slice |-> [ok |-> TRUE, arr |-> Len(h) + 1, off |-> 0, len |-> 1]]

InitMetrics ==
  /\ TotalRequests = 0
  /\ ActiveRequests = 0
  /\ TotalErrors = 0
  /\ mpc = [g \in Goroutines |-> "idle"]
  /\ wwStatus = [g \in Goroutines |-> 0]
  /\ entered = 0
  /\ returned = [all |-> 0, failed |-> 0]
  /\ RequestDuration = [p \in Paths |-> NoSlice]
  /\ heap = <<>>
  /\ mpath = [g \in Goroutines |-> "/health"]
  /\ mstart = [g \in Goroutines |-> 0]
  /\ durations = [g \in Goroutines |-> NoSlice]
  /\ arrived = [p \in Paths |-> <<>>]

\* a request for path enters: start := time.Now(),
\* atomic.AddInt64(&serverMetrics.ActiveRequests, 1) and the decrement is
\* deferred; the sample the request will record is named by its ordinal.
\* net/http starts a goroutine per request, so the goroutines have no
\* identity and the request takes the first free place
MetricsEnter(g, path) ==
  /\ mpc[g] = "idle"
  /\ \A h \in Goroutines : h < g => mpc[h] # "idle"
  /\ entered < MaxRequests
  /\ ActiveRequests' = AddInt64(ActiveRequests, 1)
  /\ mpc' = [mpc EXCEPT ![g] = "count"]
  /\ wwStatus' = [wwStatus EXCEPT ![g] = 0]
  /\ mpath' = [mpath EXCEPT ![g] = path]
  /\ mstart' = [mstart EXCEPT ![g] = entered + 1]
  /\ entered' = entered + 1
  /\ UNCHANGED <<TotalRequests, TotalErrors, returned, durVars, notMetrics>>

\* atomic.AddUint64(&serverMetrics.TotalRequests, 1), then the response
\* writer is wrapped and next.ServeHTTP is called
MetricsCount(g) ==
  /\ mpc[g] = "count"
  /\ TotalRequests' = AddUint64(TotalRequests, 1)
  /\ mpc' = [mpc EXCEPT ![g] = "serve"]
  /\ UNCHANGED <<ActiveRequests, TotalErrors, wwStatus, entered, returned,
                 mpath, mstart, durVars, notMetrics>>

\* next.ServeHTTP(ww, r) returns, the inner handlers having written st
MetricsServe(g, st) ==
  /\ mpc[g] = "serve"
  /\ wwStatus' = [wwStatus EXCEPT ![g] = st]
  /\ mpc' = [mpc EXCEPT ![g] = "status"]
  /\ UNCHANGED <<TotalRequests, ActiveRequests, TotalErrors, entered,
                 returned, mpath, mstart, durVars, notMetrics>>

\* if ww.Status() >= 400 { atomic.AddUint64(&serverMetrics.TotalErrors, 1) }
MetricsStatus(g) ==
  /\ mpc[g] = "status"
  /\ TotalErrors' = IF IsError(wwStatus[g])
                      THEN AddUint64(TotalErrors, 1)
                      ELSE TotalErrors
  /\ mpc' = [mpc EXCEPT ![g] = "load"]
  /\ UNCHANGED <<TotalRequests, ActiveRequests, wwStatus, entered, returned,
                 mpath, mstart, durVars, notMetrics>>

\* existing, ok := serverMetrics.RequestDuration.Load(path)
MetricsLoad(g) ==
  /\ mpc[g] = "load"
  /\ durations' = [durations EXCEPT ![g] = RequestDuration[mpath[g]]]
  /\ mpc' = [mpc EXCEPT ![g] = "append"]
  /\ UNCHANGED <<TotalRequests, ActiveRequests, TotalErrors, wwStatus,
                 entered, returned, mpath, mstart, RequestDuration, heap,
                 arrived, notMetrics>>

\* the argument of Store is evaluated: append(durations, duration) after
\* the cap, or the one-element literal when the path had no entry
MetricsAppend(g) ==
  /\ mpc[g] = "append"
  /\ LET r == IF durations[g].ok
              THEN SliceAppend(heap, CapOldest(durations[g]), mstart[g])
              ELSE SliceLiteral(heap, mstart[g])
     IN /\ heap' = r.heap
        /\ durations' = [durations EXCEPT ![g] = r.slice]
  /\ mpc' = [mpc EXCEPT ![g] = "store"]
  /\ UNCHANGED <<TotalRequests, ActiveRequests, TotalErrors, wwStatus,
                 entered, returned, mpath, mstart, RequestDuration, arrived,
                 notMetrics>>

\* serverMetrics.RequestDuration.Store(path, ...)
MetricsStore(g) ==
  /\ mpc[g] = "store"
  /\ RequestDuration' = [RequestDuration EXCEPT ![mpath[g]] = durations[g]]
  /\ arrived' = [arrived EXCEPT ![mpath[g]] = Append(@, mstart[g])]
  /\ mpc' = [mpc EXCEPT ![g] = "defer"]
  /\ UNCHANGED <<TotalRequests, ActiveRequests, TotalErrors, wwStatus,
                 entered, returned, mpath, mstart, heap, durations,
                 notMetrics>>

\* the function returns: the deferred
\* atomic.AddInt64(&serverMetrics.ActiveRequests, -1) runs and the locals
\* of the call are gone
MetricsExit(g) ==
  /\ mpc[g] = "defer"
  /\ ActiveRequests' = AddInt64(ActiveRequests, -1)
  /\ mpc' = [mpc EXCEPT ![g] = "idle"]
  /\ returned' = [all |-> returned.all + 1,
                  failed |-> returned.failed
                               + (IF wwStatus[g] >= 400 THEN 1 ELSE 0)]
  /\ wwStatus' = [wwStatus EXCEPT ![g] = 0]
  /\ mpath' = [mpath EXCEPT ![g] = "/health"]
  /\ mstart' = [mstart EXCEPT ![g] = 0]
  /\ durations' = [durations EXCEPT ![g] = NoSlice]
  /\ UNCHANGED <<TotalRequests, TotalErrors, entered, RequestDuration, heap,
                 arrived, notMetrics>>

\* the requests of every status, all for one path
NextMetrics ==
  \/ \E g \in Goroutines : MetricsEnter(g, "/health")
  \/ \E g \in Goroutines : MetricsCount(g)
  \/ \E g \in Goroutines, st \in Statuses : MetricsServe(g, st)
  \/ \E g \in Goroutines : MetricsStatus(g)
  \/ \E g \in Goroutines : MetricsLoad(g)
  \/ \E g \in Goroutines : MetricsAppend(g)
  \/ \E g \in Goroutines : MetricsStore(g)
  \/ \E g \in Goroutines : MetricsExit(g)

\* the requests of every path, all answered 200
NextDurations ==
  \/ \E g \in Goroutines, path \in Paths : MetricsEnter(g, path)
  \/ \E g \in Goroutines : MetricsCount(g)
  \/ \E g \in Goroutines : MetricsServe(g, 200)
  \/ \E g \in Goroutines : MetricsStatus(g)
  \/ \E g \in Goroutines : MetricsLoad(g)
  \/ \E g \in Goroutines : MetricsAppend(g)
  \/ \E g \in Goroutines : MetricsStore(g)
  \/ \E g \in Goroutines : MetricsExit(g)

(***************************************************************************)
(* scribe serve: serveCmd.RunE opens the database, defers db.Close() and   *)
(* returns server.Start(port).  srv.pc is the position of the main         *)
(* goroutine: "select" in the select of Start, "shutdown" after the        *)
(* signal, "wait" inside http.Server.Shutdown, "deferred" when Start has   *)
(* returned, "dbclose" between the two statements of Database.Close,       *)
(* "exit" when RunE has returned, "exited" when the process is gone.       *)
(***************************************************************************)
InitServer ==
  srv = [pc |-> "select", listening |-> TRUE, inflight |-> 0,
         ctxDone |-> FALSE, wal |-> 0, dbOpen |-> TRUE, err |-> "",
         log |-> <<>>]

\* the accept loop of ListenAndServe hands a connection to a handler
SrvAccept ==
  /\ srv.pc # "exited"
  /\ srv.listening
  /\ srv.inflight < MaxInFlight
  /\ srv' = [srv EXCEPT !.inflight = @ + 1]
  /\ UNCHANGED notServer

\* a handler commits an INSERT or a DELETE: in WAL mode it is appended to
\* the write-ahead log; after conn.Close() the statement fails
SrvWrite ==
  /\ srv.pc # "exited"
  /\ srv.inflight > 0
  /\ srv.dbOpen
  /\ srv.wal < MaxWal
  /\ srv' = [srv EXCEPT !.wal = @ + 1]
  /\ UNCHANGED notServer

\* a handler returns
SrvFinish ==
  /\ srv.pc # "exited"
  /\ srv.inflight > 0
  /\ srv' = [srv EXCEPT !.inflight = @ - 1]
  /\ UNCHANGED notServer

\* case err := <-serverErrors: ListenAndServe has failed and Start returns
\* the error
SrvListenError ==
  /\ srv.pc = "select"
  /\ srv.inflight = 0
  /\ srv' = [srv EXCEPT !.pc = "deferred", !.listening = FALSE,
                        !.err = "server error",
                        !.log = Append(@, "listen_error")]
  /\ UNCHANGED notServer

\* case sig := <-shutdown: os.Interrupt or SIGTERM; the context of ten
\* seconds is made
SrvSignal ==
  /\ srv.pc = "select"
  /\ srv' = [srv EXCEPT !.pc = "shutdown"]
  /\ UNCHANGED notServer

\* s.server.Shutdown(ctx) closes the listeners first
SrvShutdownBegin ==
  /\ srv.pc = "shutdown"
  /\ srv' = [srv EXCEPT !.pc = "wait", !.listening = FALSE,
                        !.log = Append(@, "stop_accept")]
  /\ UNCHANGED notServer

\* the ten seconds of the context pass
SrvCtxTimeout ==
  /\ srv.pc = "wait"
  /\ ~srv.ctxDone
  /\ srv' = [srv EXCEPT !.ctxDone = TRUE]
  /\ UNCHANGED notServer

\* Shutdown finds every connection idle and returns nil; Start returns nil
SrvShutdownIdle ==
  /\ srv.pc = "wait"
  /\ srv.inflight = 0
  /\ srv' = [srv EXCEPT !.pc = "deferred", !.log = Append(@, "drained")]
  /\ UNCHANGED notServer

\* Shutdown finds a connection in use and the context done: it returns
\* ctx.Err(), s.server.Close() closes the connections (the handlers go on
\* running) and Start returns the error
SrvShutdownTimeout ==
  /\ srv.pc = "wait"
  /\ srv.inflight > 0
  /\ srv.ctxDone
  /\ srv' = [srv EXCEPT !.pc = "deferred",
                        !.err = "could not stop server gracefully",
                        !.log = Append(@, "timeout")]
  /\ UNCHANGED notServer

\* the mutation: Database.Close without the checkpoint
DbCloseOnly ==
  /\ srv.pc = "deferred"
  /\ srv' = [srv EXCEPT !.pc = "dbclose"]
  /\ UNCHANGED notServer

\* the deferred db.Close(): PRAGMA wal_checkpoint(TRUNCATE)
DbCheckpoint ==
  /\ srv.pc = "deferred"
  /\ srv' = [srv EXCEPT !.pc = "dbclose", !.wal = 0,
                        !.log = Append(@, "checkpoint")]
  /\ UNCHANGED notServer

\* return db.conn.Close()
DbConnClose ==
  /\ srv.pc = "dbclose"
  /\ srv' = [srv EXCEPT !.pc = "exit", !.dbOpen = FALSE,
                        !.log = Append(@, "close")]
  /\ UNCHANGED notServer

\* RunE has returned: Execute returns, or prints the error and calls
\* os.Exit(1); the handlers still running end with the process
SrvExit ==
  /\ srv.pc = "exit"
  /\ srv' = [srv EXCEPT !.pc = "exited", !.inflight = 0,
                        !.log = Append(@, "exit")]
  /\ UNCHANGED notServer

NextServer ==
  \/ SrvAccept
  \/ SrvWrite
  \/ SrvFinish
  \/ SrvListenError
  \/ SrvSignal
  \/ SrvShutdownBegin
  \/ SrvCtxTimeout
  \/ SrvShutdownIdle
  \/ SrvShutdownTimeout
  \/ DbCheckpoint
  \/ DbConnClose
  \/ SrvExit

Init == InitHub /\ InitLimiter /\ InitStore /\ InitMetrics /\ InitServer

SpecHub == Init /\ [][NextHub]_vars

\* the coordinator goroutine keeps running, and its select takes one of
\* the ready cases at random, so a sender that stays ready on h.unregister
\* is received from
HubFairness ==
  /\ WF_vars(HubInsert)
  /\ WF_vars(\E v \in Viewers : HubFanoutStep(v))
  /\ WF_vars(HubFanoutDone)
  /\ \A v \in Viewers : SF_vars(HubRecvUnregister(v))

SpecHubLive == SpecHub /\ HubFairness

SpecCoordinator == Init /\ [][NextCoordinator]_vars

SpecLimiter == Init /\ [][NextLimiter]_vars

SpecIngest == Init /\ [][NextIngest]_vars

SpecStore == Init /\ [][NextStore]_vars

SpecDelete == Init /\ [][NextDelete]_vars
SpecRace == Init /\ [][NextRace]_vars

SpecBulk == Init /\ [][NextBulk]_vars

SpecClassify == Init /\ [][NextClassify]_vars
SpecPerformance == Init /\ [][NextPerformance]_vars

SpecQuery == Init /\ [][NextQuery]_vars
SpecScan == Init /\ [][NextScan]_vars

SpecMetrics == Init /\ [][NextMetrics]_vars

SpecDurations == Init /\ [][NextDurations]_vars

SpecStats == Init /\ [][NextStats]_vars

SpecServer == Init /\ [][NextServer]_vars

(***************************************************************************)
(* Properties of the hub.                                                  *)
(***************************************************************************)
Occurrences(x, s) == Cardinality({i \in 1..Len(s) : s[i] = x})

\* the ids of the events put into viewer v's channel, in order
GotIds(v) == [k \in 1..Len(got[v]) |-> got[v][k].id]

\* C1: while the coordinator fans an event out it always has a next step
\* (it never waits for a subscriber), it never sends on a closed channel,
\* and of the subscribers it has visited exactly those whose buffer was
\* full miss the event: each of them misses it, every other one got it.
C1_DropOnlyForFullSubscriber ==
  /\ (hubpc = "fanout" /\ hubTodo # {}) =>
        ENABLED (\E v \in Viewers : HubFanoutStep(v))
  /\ \A v \in clients : closed[v] = 0
  /\ hubpc = "fanout" =>
        \A v \in clients \ hubTodo :
           /\ v \in hubFull => Occurrences(hubEv.id, GotIds(v)) = 0
           /\ v \notin hubFull => Occurrences(hubEv.id, GotIds(v)) = 1

\* a fan-out has ended in which one subscriber was full and another one
\* received the event
C1_Witness ==
  /\ hubpc = "fanout"
  /\ hubTodo = {}
  /\ \E v, w \in clients :
        /\ v \in hubFull
        /\ w \notin hubFull
        /\ Occurrences(hubEv.id, GotIds(w)) = 1
        /\ Occurrences(hubEv.id, GotIds(v)) = 0

\* C2: no producer is ever held in h.broadcast <- event.
C2_ProducerNeverBlocks ==
  \A p \in Producers :
     ~(ppc[p] = "send" /\ ~ChanSendReady(broadcast, BroadcastBuffer))

\* C3: no event is put twice into a subscriber's channel, and when a
\* fan-out ends every subscriber that was in the set with room in its
\* buffer holds the event once; a viewer whose registration has completed
\* and that was not unregistered is in the set whenever the coordinator is
\* back at its select, hence in every fan-out that follows.
C3_DeliveredExactlyOnce ==
  /\ \A v \in Viewers : \A e \in 1..evCount : Occurrences(e, GotIds(v)) <= 1
  /\ \A v \in Viewers :
        (upc[v] = "wait" /\ hubpc # "reg") => v \in clients
  /\ (hubpc = "fanout" /\ hubTodo = {}) =>
        \A v \in Viewers :
           ((v \in clients \/ upc[v] = "wait") /\ v \notin hubFull)
              => Occurrences(hubEv.id, GotIds(v)) = 1

\* a fan-out has ended that reached a connected viewer, who then also
\* holds an earlier event
C3_Witness ==
  /\ hubpc = "fanout"
  /\ hubTodo = {}
  /\ \E v \in Viewers :
        /\ upc[v] = "wait"
        /\ ~ctxDone[v]
        /\ Len(got[v]) = 2
        /\ Occurrences(hubEv.id, GotIds(v)) = 1

\* C4: a channel is closed at most once; once the unregistration sent by
\* the handler's goroutine is processed the channel is out of the set and
\* closed once, and stays so when unregistered again; a channel that was
\* never registered is not closed by an unregistration.
C4_UnregisterIdempotent ==
  \A v \in Viewers :
     /\ closed[v] <= 1
     /\ upc[v] = "done" => (v \notin clients /\ closed[v] = 1)
     /\ vpc[v] \in {"idle", "never"} => (v \notin clients /\ closed[v] = 0)

\* a second unregistration of a viewer has been processed
C4_Witness ==
  \E v \in Viewers :
     /\ upc[v] = "done"
     /\ closed[v] = 1
     /\ strayCount = 1
     /\ stray = {}
     /\ \A w \in Viewers \ {v} : upc[w] = "wait"

(***************************************************************************)
(* Properties of the limiter.                                              *)
(***************************************************************************)
\* C5 as stated: a request is admitted only if fewer than N requests were
\* admitted before it in the window of length W that ends with it.
C5_RejectedAfterNInWindow ==
  resp.admitted => resp.prior < Limit

\* C5: once N requests have been admitted and no token has been credited
\* since the first of them, the next request is rejected with 429 and
\* Retry-After and is not passed on.
C5_RejectedAfterNWithoutCredit ==
  resp.run >= Limit =>
     /\ resp.status = 429
     /\ resp.retryAfter = "1"
     /\ ~resp.next
     /\ ~resp.admitted

\* request N+1 was rejected after N admissions without a credit, all
\* within one window
C5_Witness ==
  /\ resp.run >= Limit
  /\ resp.prior >= Limit
  /\ resp.status = 429

\* C6: a request that finds the limiter idle for at least W is admitted.
C6_AdmittedAfterWindow ==
  resp.waited >= Window => (resp.admitted /\ resp.next)

\* the bucket was empty, nothing arrived for W, and the request got in
C6_Witness ==
  /\ resp.waited >= Window
  /\ resp.tokensBefore = 0
  /\ resp.admitted

(***************************************************************************)
(* Properties of the store.                                                *)
(***************************************************************************)
\* C7: a create call whose input has an empty title fails with a
\* validation error (ErrMissingTitle from the command, status 400 from the
\* HTTP handler) and persists nothing: the table is as it was and no id
\* is used up.
C7_EmptyTitleNotPersisted ==
  [][\A in \in CreateInputs : in.title = "" =>
        /\ LogCmd(in) =>
              /\ storeResp'.err = ErrMissingTitle
              /\ logs' = logs /\ nextId' = nextId
        /\ \A p \in Producers : CreateLogWithSSE(p, in) =>
              /\ storeResp'.status = 400
              /\ logs' = logs /\ nextId' = nextId]_vars

\* a create with an empty title was refused, by the command or by the
\* HTTP handler, while the table held a row
C7_Witness ==
  /\ \/ storeResp.op = "log" /\ storeResp.err = ErrMissingTitle
     \/ storeResp.op = "POST /api/logs" /\ storeResp.status = 400
  /\ logs # {}

\* C8: a cleanup that runs DeleteOlderThan(cutoff) leaves exactly the rows
\* with created_at >= cutoff, so a row created at the cutoff and every
\* newer row stay, and it reports the number of rows it removed.
C8_DeletesExactlyOlder ==
  [][\A days \in RetentionDays :
        ((CleanupLogs(days) \/ CleanupLogsHandle(days))
           /\ storeResp'.err = "") =>
            LET cutoff == storeResp'.cutoff
            IN  /\ logs' = {l \in logs : l.created_at >= cutoff}
                /\ storeResp'.deleted =
                       Cardinality({l \in logs : l.created_at < cutoff})]_vars

\* a cleanup removed a row and kept one created exactly at its cutoff
C8_Witness ==
  /\ storeResp.op \in {"cleanup", "POST /api/admin/cleanup"}
  /\ storeResp.err = ""
  /\ storeResp.deleted >= 1
  /\ \E l \in logs : l.created_at = storeResp.cutoff

\* C9: a cleanup asked for with fewer than one retention day is refused
\* with a validation error and removes no row.
C9_InvalidRetentionRejected ==
  [][\A days \in RetentionDays : days < 1 =>
        /\ CleanupLogsHandle(days) =>
              /\ storeResp'.err = "retention_days must be at least 1"
              /\ logs' = logs
        /\ CleanupLogs(days) =>
              /\ storeResp'.status = 400
              /\ logs' = logs]_vars

\* a cleanup was refused while the table held a row older than now, which
\* zero retention days would have removed
C9_Witness ==
  /\ storeResp.op = "cleanup"
  /\ storeResp.err # ""
  /\ \E l \in logs : l.created_at < now

\* the predicate of a filter: the search text occurs in the title, the
\* description or the serialized body, severity, source and color are
\* equal to the ones asked for, created_at lies in the date range
FilterPredicate(l, f) ==
  /\ f.Search # "" =>
        \E text \in {l.title, l.description, l.body} :
            Contains(ToLower(text), ToLower(f.Search))
  /\ f.Severity # "" => l.severity = f.Severity
  /\ f.Source # "" => l.source = f.Source
  /\ f.Color # "" => l.color = f.Color
  /\ f.FromDate # -1 => l.created_at >= f.FromDate
  /\ f.ToDate # -1 => l.created_at <= f.ToDate

\* C10: the total FindAll returns is the number of rows that satisfied the
\* filter's predicate when it counted them, whatever the limit and the
\* offset; for the filter without criteria it is Count() of that table.
C10_TotalIsMatchCount ==
  findAll.pc = "done" =>
    /\ findAll.totalCount =
          Cardinality({l \in counted : FilterPredicate(l, findAll.filters)})
    /\ WhereClauses(findAll.filters) = <<>> =>
          findAll.totalCount = Count(counted)

\* the ids a page holds
PageIds(page) == {page[i] : i \in 1..Len(page)}

\* C11: a page FindAll returns holds no record the page before it held,
\* when both calls saw the same table (so that successive pages repeat no
\* record and omit none), and FindAll({}) returns every record, newest
\* first
C11_PagesPartition ==
  [][(FindAllPage /\ findAll'.err = "") =>
        /\ (findAll.prev.called /\ findAll.seen = logs) =>
               PageIds(findAll.prev.logs) \cap PageIds(findAll'.logs) = {}
        /\ findAll.filters = NoFilters =>
               /\ PageIds(findAll'.logs) = {l.id : l \in logs}
               /\ Len(findAll'.logs) = Cardinality(logs)]_vars

\* C12: a lookup or a delete of an id that is not in the table when the
\* operation runs answers 404 "log not found"; for DELETE /api/logs/{id}
\* also when the row went away between the existence check and the delete
C12_AbsentIsNotFound ==
  [][/\ \A id \in IDs :
          (GetLog(id) /\ FindByID(logs, id) = {}) => storeResp'.status = 404
     /\ \A p \in Producers : \A id \in IDs :
          (DeleteLogWithSSE(p, id) /\ FindByID(logs, id) = {}) =>
              storeResp'.status = 404
     /\ \A p \in Producers :
          (DeleteLogDelete(p) /\ FindByID(logs, deleting[p].id) = {}) =>
              storeResp'.status = 404]_vars

\* C13: a bulk delete passes every id of the request to repo.Delete, an
\* id that is in the table is removed whatever happened to the ids before
\* it, and the count in the response is the number of rows the request
\* removed
C13_BulkDeleteIndependent ==
  [][\A p \in Producers :
        /\ DeleteLogsStep(p) =>
              logs' = {l \in logs : l.id # Head(deleting[p].ids)}
        /\ DeleteLogsRespond(p) =>
              /\ deleting[p].tried = deleting[p].req
              /\ storeResp'.deleted = Cardinality(deleting[p].removed)]_vars

\* a bulk delete answered after an id that failed was followed by an id
\* whose row it removed
C13_Witness ==
  /\ storeResp.op = "DELETE /api/logs"
  /\ storeResp.status = 200
  /\ \E p \in Producers :
        /\ deleting[p].pc = "none"
        /\ storeResp.deleted = Cardinality(deleting[p].removed)
        /\ \E i, j \in 1..Len(deleting[p].req) :
              /\ i < j
              /\ deleting[p].req[i] \notin deleting[p].removed
              /\ deleting[p].req[j] \in deleting[p].removed

\* C14: two classifications of the same input give the same severity,
\* source and category
C14_ClassificationDeterministic ==
  \A i, j \in 1..Len(analysed) :
      analysed[i].in = analysed[j].in => analysed[i].md = analysed[j].md

\* the <<severity, category>> pairs stage k of the pipeline gives a log, none
\* if the stage does not match: 1 security, 2 business, 3 performance,
\* 4 HTTP status, 5 stack trace, 6 database, 7 system error code,
\* 8 keywords
StageResult(k, log) ==
    LET allText == getSearchableText(log)
        tl == ToLower(allText)
    IN  CASE k = 1 -> IF detectSecurityIssue(tl)
                      THEN {<<"critical", "security">>} ELSE {}
          [] k = 2 -> {<<sv, "business">> : sv \in checkBusinessPatterns(tl)}
          [] k = 3 -> {<<sv, "performance">> :
                          sv \in checkPerformancePatterns(log, tl)}
          [] k = 4 -> {<<e[2], "http">> :
                          e \in {t \in HTTPStatusSeverity :
                                    t[1] = extractHTTPStatusCode(allText)}}
          [] k = 5 -> IF hasStackTrace(allText)
                      THEN {<<"error", detectCategory(tl)>>} ELSE {}
          [] k = 6 -> {<<sv, "database">> :
                          sv \in RangeMatches(DatabasePatterns, tl)}
          [] k = 7 -> {<<sv, "system">> :
                          sv \in RangeMatches(SystemErrorCodes, allText)}
          [] k = 8 -> {<<detectSeverityFromKeywords(tl), detectCategory(tl)>>}

\* the stages that match each input
StagesMatching ==
    [in \in ClassifyInputs |->
        {k \in 1..8 : StageResult(k, NewLog(in, 0)) # {}}]

\* what the first stage that matches gives each input
FirstMatch ==
    [in \in ClassifyInputs |->
        StageResult(CHOOSE k \in StagesMatching[in] :
                        \A m \in StagesMatching[in] : k <= m,
                    NewLog(in, 0))]

\* C15: the severity and category of a classification are those of the
\* first stage, in the order security, business, performance, HTTP status,
\* stack trace, database, system error code, keywords, that matches the
\* text; text with a security keyword and an HTTP status code is critical
\* and of category security
C15_FirstMatchWins ==
  \A i \in 1..Len(analysed) :
      LET in == analysed[i].in
          md == analysed[i].md
      IN  /\ <<md.derived_severity, md.derived_category>> \in FirstMatch[in]
          /\ {1, 4} \subseteq StagesMatching[in] =>
                 /\ md.derived_severity = "critical"
                 /\ md.derived_category = "security"

\* a text with a security keyword and an HTTP status code was classified,
\* and so was a text that matches two later stages
C15_Witness ==
  /\ \E i \in 1..Len(analysed) : {1, 4} \subseteq StagesMatching[analysed[i].in]
  /\ \E i \in 1..Len(analysed) :
        /\ 1 \notin StagesMatching[analysed[i].in]
        /\ Cardinality(StagesMatching[analysed[i].in] \ {8}) >= 2

\* C16: a record written with a severity named by the caller has that
\* severity as its effective severity
C16_ExplicitSeverityKept ==
  [][\A in \in ClassifyInputs :
        (LogCmd(in) /\ in.severity # "") =>
            \A l \in logs' \ logs : EffectiveSeverity(l) = in.severity]_vars

\* the log_created event of record id waits in h.broadcast or is being
\* handed to the subscribers by the coordinator
Queued(id) ==
    \/ \E k \in 1..Len(broadcast) :
          broadcast[k].type = "log_created" /\ broadcast[k].data = id
    \/ hubEv.type = "log_created" /\ hubEv.data = id

\* the handler of POST /api/logs builds a log_created event only for a
\* record that is in the table, sends it on h.broadcast while the request
\* is still unanswered, and answers 201 only when no event of its record
\* is left to send
IngestOrder ==
  \A p \in Producers :
      /\ (CreateLogBroadcast(p) /\ pev'[p] # pev[p]) =>
             /\ pev'[p].type = "log_created"
             /\ \E l \in logs : l.id = pev'[p].data
      /\ (BroadcastSend(p) /\ pev[p].type = "log_created") =>
             /\ pev[p].data < nextId
             /\ outputID[p] = pev[p].data
      /\ CreateLogRespond(p) =>
             /\ storeResp'.status = 201
             /\ storeResp'.id < nextId
             /\ \A q \in Producers :
                   ~(pev[q].type = "log_created" /\ pev[q].data = outputID[p])

\* C17 as stated: persist, then broadcast, then respond, with no queueing
\* or asynchronous handoff: when the response is returned the event is
\* not waiting in a queue of the hub
C17_SynchronousIngest ==
  [][/\ IngestOrder
     /\ \A p \in Producers : CreateLogRespond(p) => ~Queued(outputID[p])]_vars

\* C17, amended: persist, then hand the event to the hub, then respond;
\* no event for a record that is not in the table
C17_PersistSendRespond == [][IngestOrder]_vars

\* a request was answered 201 while the event of its record was still in
\* the hub's queue
C17_Witness ==
  /\ storeResp.op = "POST /api/logs"
  /\ storeResp.status = 201
  /\ Queued(storeResp.id)

\* C18: every step that removes records from the table builds the
\* log_deleted event of each record it removed, and the handler of
\* POST /api/logs builds the log_created event of the record it wrote
C18_ChangeTriggersBroadcast ==
  [][/\ \A l \in logs \ logs' :
          \E p \in Producers : /\ pev'[p] # pev[p]
                                /\ pev'[p].type = "log_deleted"
                                /\ pev'[p].data = l.id
     /\ \A p \in Producers :
          CreateLogBroadcast(p) => /\ pev'[p].type = "log_created"
                                   /\ pev'[p].data = outputID[p]]_vars

\* C19: once a viewer's request context is cancelled, its channel is
\* eventually out of the set of clients and closed
C19_DisconnectedIsRemoved ==
  \A v \in Viewers :
      ctxDone[v] ~> (v \notin clients /\ closed[v] = 1)

\* a disconnected viewer was removed and closed while another viewer is
\* still subscribed
C19_Witness ==
  \E v, w \in Viewers :
      /\ ctxDone[v]
      /\ v \notin clients
      /\ closed[v] = 1
      /\ clients = {w}
      /\ ~ctxDone[w]

(***************************************************************************)
(* Properties of the metrics counters.                                     *)
(***************************************************************************)
\* requests that are inside the middleware and at one of the positions ps
At(ps) == Cardinality({g \in Goroutines : mpc[g] \in ps})

\* calls that have returned with a status of 400 or more
ReturnedErrors == returned.failed

\* C20: under every interleaving the counters are exact.  In-flight is the
\* number of requests between their entry and their exit, so it is never
\* negative and is zero when none is active; total requests is the number
\* of requests that entered, less those that have not reached their
\* increment yet; total errors is the number of returned requests with a
\* status of 400 or more, plus those that have made their increment and
\* not returned yet.  With no request inside, the three counters are the
\* number entered, zero, and the number returned with status >= 400.
C20_CountersExact ==
  /\ ActiveRequests = At({"count", "serve", "status", "load", "append",
                           "store", "defer"})
  /\ ActiveRequests >= 0
  /\ TotalRequests = entered - At({"count"})
  /\ TotalErrors = ReturnedErrors
                     + Cardinality({g \in Goroutines :
                                      /\ mpc[g] \in {"load", "append",
                                                      "store", "defer"}
                                      /\ wwStatus[g] >= 400})
  /\ At({"idle"}) = MaxConcurrent
       => /\ ActiveRequests = 0
          /\ TotalRequests = entered
          /\ TotalErrors = ReturnedErrors

\* one request has returned without error, a second has counted its 400 and has
\* its decrement left, and a third has entered and not reached the
\* increment of the total yet
C20_Witness ==
  /\ returned = [all |-> 1, failed |-> 0]
  /\ \E g, h \in Goroutines :
       /\ mpc[g] = "defer" /\ wwStatus[g] = 400
       /\ mpc[h] = "count"
  /\ TotalErrors = 1
  /\ TotalRequests = 2
  /\ ActiveRequests = 2

(***************************************************************************)
(* Properties of the latency history.                                      *)
(***************************************************************************)
\* the history of a path, as a reader of the map sees it
History(p) == Elems(heap, RequestDuration[p])

\* the last n elements of s, all of s when it has fewer
LastN(s, n) == IF Len(s) <= n THEN s ELSE SubSeq(s, Len(s) - n + 1, Len(s))

\* the samples of History(p) never exceed the cap
HistoryCapped == \A p \in Paths : Len(History(p)) <= MaxSamples

\* C21: the history of a path never holds more than the cap, and it is
\* always the most recent samples of the path in arrival order: an arrival
\* at a full history evicts the oldest sample and appends the new one.
C21_MostRecentSamples ==
  \A p \in Paths :
    /\ Len(History(p)) <= MaxSamples
    /\ History(p) = LastN(arrived[p], MaxSamples)

\* C28: no sample is lost to a concurrent update: when the k requests made
\* for a path so far have all finished, k within the cap, the history of
\* the path holds exactly k samples.
C28_NoSampleLost ==
  \A p \in Paths :
    (/\ \A g \in Goroutines : mpc[g] = "idle"
     /\ Len(arrived[p]) <= MaxSamples)
      => Len(History(p)) = Len(arrived[p])

(***************************************************************************)
(* Properties of the ids.                                                  *)
(***************************************************************************)
\* C22: in every step, a row that is new has an id greater than the id of
\* every row of the table and of every row the table has ever held (those
\* are below nextId), so ids are unique, increase in creation order and are
\* not given again after a delete; and a row that stays keeps its id and
\* its contents.
C22_IdsNeverReused ==
  [][/\ nextId' >= nextId
     /\ \A r \in logs' \ logs :
          /\ r.id >= nextId
          /\ r.id < nextId'
          /\ \A o \in logs : o.id < r.id
     /\ \A r \in logs', o \in logs' : r.id = o.id => r = o
     /\ \A r \in logs', o \in logs : r.id = o.id => r = o]_vars

\* the record with id 1 was removed by a request that has been answered,
\* and the last answer is that of the creation of the record with id 2
C22_Witness ==
  /\ storeResp.op = "log" /\ storeResp.err = "" /\ storeResp.id = 2
  /\ \A p \in Producers : deleting[p].pc = "none"
  /\ {r.id : r \in logs} = {2}

(***************************************************************************)
(* Properties of the aggregates.                                           *)
(***************************************************************************)
\* the effective severity of a stored row: the derived one if it is not
\* empty, else the explicit one
RowSeverity(r) ==
  IF r.derived_severity # "" THEN r.derived_severity ELSE r.severity

\* the source bucket of a stored row
RowSource(r) == IF r.source = "" THEN "unknown" ELSE r.source

\* severity buckets are exact: one for each effective severity in the
\* table the query saw, holding the number of its rows
SeverityBucketsExact ==
  stats.pc \in {"source", "done"} =>
    /\ DOMAIN stats.BySeverity = {RowSeverity(r) : r \in stats.severityRows}
    /\ \A k \in DOMAIN stats.BySeverity :
         stats.BySeverity[k] =
           Cardinality({r \in stats.severityRows : RowSeverity(r) = k})

\* source buckets are exact, rows without a source counting as "unknown"
SourceBucketsExact ==
  stats.pc = "done" =>
    /\ DOMAIN stats.BySource = {RowSource(r) : r \in stats.sourceRows}
    /\ \A k \in DOMAIN stats.BySource :
         stats.BySource[k] =
           Cardinality({r \in stats.sourceRows : RowSource(r) = k})

\* C23: every bucket of CountBySeverity is the number of stored records of
\* that effective severity, and every bucket of CountBySource the number
\* of stored records of that source, records without a source being
\* counted under "unknown".
C23_AggregatesExact == SeverityBucketsExact /\ SourceBucketsExact

(***************************************************************************)
(* Properties of the shutdown.                                             *)
(***************************************************************************)
IsPrefix(s, t) == Len(s) <= Len(t) /\ s = SubSeq(t, 1, Len(s))

\* the two orders of a shutdown that a signal starts
ShutdownOrders ==
  {<<"stop_accept", w, "checkpoint", "close", "exit">> :
     w \in {"drained", "timeout"}}

C25_CoordinatorSerialises ==
  [][/\ (clients' # clients \/ closed' # closed) => hubpc # "fanout"
     /\ hubpc = "fanout" => hubTodo \subseteq clients
     /\ \A v \in Viewers :
          (hubpc = "fanout" /\ v \in hubTodo /\ v \notin hubTodo')
            => v \in clients /\ closed[v] = 0]_vars

\* a fan-out is under way with a client still to visit, while the handler
\* of that client has its context done and its unregistration waiting
C25_Witness ==
  /\ hubpc = "fanout"
  /\ \E v \in hubTodo : ctxDone[v] /\ upc[v] = "wait"

(***************************************************************************)
(* Properties of the limiter over an interval.                             *)
(***************************************************************************)
\* the requests admitted in the interval [now - T, now]
AdmittedSince(T) ==
  Cardinality({i \in 1..Len(admits) : admits[i] >= now - T})

\* C26: over every interval of length T the limiter admits at most
\* Limit + T / Interval requests: the burst, and one token for each refill
\* interval (intervals shorter than the window, which is what admits keeps).
C26_AdmissionBound ==
  \A T \in 0..(Window - 1) : AdmittedSince(T) <= Limit + (T \div Interval)

\* viewer v was handed the log_deleted event of record id before the
\* log_created event of the same record
DeletedBeforeCreated(v, id) ==
  \E i, j \in 1..Len(got[v]) :
      /\ i < j
      /\ got[v][i].type = "log_deleted" /\ got[v][i].data = id
      /\ got[v][j].type = "log_created" /\ got[v][j].data = id

\* C27: no subscriber is handed the log_deleted event of a record before
\* the log_created event of that record, also when the DELETE request runs
\* while the POST request that wrote the record is still being served
C27_CreatedBeforeDeleted ==
  \A v \in Viewers : \A id \in IDs : ~DeletedBeforeCreated(v, id)

\* the ids a FindAll call returned
Returned(f) == {f.logs[k] : k \in 1..Len(f.logs)}

\* C29: a row whose body column does not hold JSON is left out of the
\* result of FindAll, and every other row that matches the filters of a
\* call without LIMIT is returned, with no error
C29_CorruptBodySkipped ==
  [][(FindAllPage /\ Prepares(PageTail(findAll.filters))) =>
        /\ findAll'.err = ""
        /\ \A l \in logs :
              (Where(l, findAll.filters) /\ l.body \in CorruptBodies)
                 => l.id \notin Returned(findAll')
        /\ \A l \in logs :
              (/\ Where(l, findAll.filters)
               /\ l.body \notin CorruptBodies
               /\ ~ScanErr(l)
               /\ findAll.filters.Limit = 0)
                 => l.id \in Returned(findAll')]_vars

\* the input meets no stage before the performance stage and no
\* performance keyword, computed once for each input
NoEarlierMatch ==
    [in \in DurationInputs |->
        LET textLower == ToLower(getSearchableText(NewLog(in, 0)))
        IN  /\ ~detectSecurityIssue(textLower)
            /\ checkBusinessPatterns(textLower) = {}
            /\ RangeMatches(PerformancePatterns, textLower) = {}]

\* the duration fields present in a body with a number or a string that
\* parses as one, by their place in durationFields
PresentDurations(body) ==
    {k \in 1..Len(durationFields) :
        /\ HasField(body, durationFields[k])
        /\ \/ Field(body, durationFields[k]).kind = "num"
           \/ Atoi(Field(body, durationFields[k]).str).ok}

\* the first of them, and its value
FirstDuration(body) ==
    LET k == CHOOSE k \in PresentDurations(body) :
                 \A j \in PresentDurations(body) : k <= j
        f == Field(body, durationFields[k])
    IN  IF f.kind = "num" THEN f.num ELSE Atoi(f.str).val

\* the severity of a duration d
DurationBucket(d) ==
    IF d < 100 THEN "success"
    ELSE IF d < 1000 THEN "info"
    ELSE IF d < 3000 THEN "warning"
    ELSE "error"

\* C30: for a record that meets no earlier stage and no performance
\* keyword, the first duration field present with a number or a numeric
\* string d gives category performance and the severity of d: success
\* below 100, info below 1000, warning below 3000, error from 3000 on;
\* a string that does not parse counts as an absent field
C30_FirstDurationDecides ==
  \A k \in 1..Len(analysed) :
      LET in == analysed[k].in
          md == analysed[k].md
      IN  (/\ in \in DurationInputs
           /\ NoEarlierMatch[in]
           /\ PresentDurations(in.body) # {})
            => /\ md.derived_category = "performance"
               /\ md.derived_severity =
                     DurationBucket(FirstDuration(in.body))

====
